---- MODULE Spec2Model ----
(***************************************************************************)
(* A model of the ghrepo crate (crates/ghrepo/src/parser.rs and lib.rs):   *)
(* the owner/name lexers, the validators, the URL recogniser's state       *)
(* machine and the GHRepo constructors.                                    *)
(*                                                                         *)
(* A Rust &str is modelled as a sequence of characters, each character a   *)
(* one-character TLA+ string.  Byte offsets (str::len, str::get) are kept  *)
(* by ByteLen: an ASCII character is 1 byte, a non-ASCII one 2 bytes.      *)
(* Option<T> is modelled as a sequence of length 0 (None) or 1 (Some).     *)
(***************************************************************************)
EXTENDS Integers, Sequences, FiniteSets, TLC

VARIABLES
    GH_HOST,        \* the process environment's GH_HOST: <<>> unset, <<h>> set
    pc,             \* "idle", "parsing" (inside parse_github_url) or "done"
    op,             \* the public operation in progress or last finished
    s,              \* the operation's string argument
    owner_arg,      \* the owner argument (new, from_str_with_owner)
    name_arg,       \* the name argument (new)
    start_patterns, \* parse_github_url's local `start_patterns`
    state,          \* parse_github_url's local `state`
    data,           \* parse_github_url's `parser.data` (the cursor)
    result,         \* parse_github_url's local `result`
    parsed,         \* the value parse_github_url returned
    ret,            \* the value the public operation returned
    host_at_call,   \* GH_HOST as it was when the operation was called
    made_from,      \* the GHRepo whose derived URL is being parsed, if any
    git,            \* the git child processes of the operation in progress
    command,        \* the ghrepo command's parsed arguments, if it is running
    stdout,         \* what the ghrepo command wrote to its standard output
    stderr,         \* what the ghrepo command wrote to its standard error
    exit_code,      \* the ghrepo command's exit code, once it has exited
    pull_tokens     \* the tokens given to a method of PullParser called alone

\* The variables of the LocalRepo methods, of the command and of the
\* PullParser methods called alone
lvars == <<git, command, stdout, stderr, exit_code, pull_tokens>>

vars == <<GH_HOST, pc, op, s, owner_arg, name_arg, start_patterns, state,
          data, result, parsed, ret, host_at_call, made_from,
          git, command, stdout, stderr, exit_code, pull_tokens>>

-----------------------------------------------------------------------------
(* Characters *)

Lowers == <<"a","b","c","d","e","f","g","h","i","j","k","l","m",
            "n","o","p","q","r","s","t","u","v","w","x","y","z">>
Uppers == <<"A","B","C","D","E","F","G","H","I","J","K","L","M",
            "N","O","P","Q","R","S","T","U","V","W","X","Y","Z">>
Digits == <<"0","1","2","3","4","5","6","7","8","9">>

LowerSet == {Lowers[i] : i \in 1..26}
UpperSet == {Uppers[i] : i \in 1..26}
DigitSet == {Digits[i] : i \in 1..10}

\* Characters outside ASCII (two bytes in UTF-8).
NonAscii == {"é"}

LowerOf == [c \in UpperSet |-> Lowers[CHOOSE i \in 1..26 : Uppers[i] = c]]

to_ascii_lowercase(c) == IF c \in UpperSet THEN LowerOf[c] ELSE c

is_ascii_alphanumeric(c) == c \in LowerSet \cup UpperSet \cup DigitSet

eq_ignore_ascii_case(a, b) ==
    /\ Len(a) = Len(b)
    /\ \A i \in 1..Len(a) : to_ascii_lowercase(a[i]) = to_ascii_lowercase(b[i])

ByteLen(c) == IF c \in NonAscii THEN 2 ELSE 1

\* str.len(): the length in bytes
StrLen(str) == Len(str) + Cardinality({i \in 1..Len(str) : str[i] \in NonAscii})

\* The number of leading characters that make up exactly i bytes, or -1 when
\* byte offset i is past the end or not on a character boundary.
RECURSIVE CharIndexFrom(_, _, _, _)
CharIndexFrom(str, i, k, bytes) ==
    IF bytes = i THEN k
    ELSE IF bytes > i \/ k = Len(str) THEN -1
    ELSE CharIndexFrom(str, i, k + 1, bytes + ByteLen(str[k + 1]))

CharIndex(str, i) == CharIndexFrom(str, i, 0, 0)

\* str.get(..i) and str.get(i..) as Options
GetTo(str, i) ==
    LET k == CharIndex(str, i) IN IF k < 0 THEN <<>> ELSE <<SubSeq(str, 1, k)>>
GetFrom(str, i) ==
    LET k == CharIndex(str, i)
    IN IF k < 0 THEN <<>> ELSE <<SubSeq(str, k + 1, Len(str))>>

starts_with(str, p) == Len(p) <= Len(str) /\ SubSeq(str, 1, Len(p)) = p
DropLen(str, n) == SubSeq(str, n + 1, Len(str))

-----------------------------------------------------------------------------
(* String literals of the source *)

GITHUB_COM == <<"g","i","t","h","u","b",".","c","o","m">>
DOT_GIT    == <<".","g","i","t">>
NONE_WORD  == <<"n","o","n","e">>
API_DOT    == <<"a","p","i",".">>
GIT_SCHEME == <<"g","i","t",":","/","/">>
SSH_SCHEME == <<"s","s","h",":","/","/">>
GIT_AT     == <<"g","i","t","@">>
HTTPS_SCHEME == <<"h","t","t","p","s",":","/","/">>
HTTP_SCHEME  == <<"h","t","t","p",":","/","/">>
REPOS_PATH == <<"/","r","e","p","o","s","/">>
WWW_DOT    == <<"w","w","w",".">>
SLASH      == <<"/">>
COLON      == <<":">>

-----------------------------------------------------------------------------
(* parser.rs: the lexers *)

is_owner_char(c) == is_ascii_alphanumeric(c) \/ c = "-" \/ c = "_"

is_name_char(c) == is_ascii_alphanumeric(c) \/ c = "-" \/ c = "_" \/ c = "."

\* str.split_at(i) for a byte offset i on a character boundary
split_at(str, i) ==
    <<SubSeq(str, 1, CharIndex(str, i)), SubSeq(str, CharIndex(str, i) + 1, Len(str))>>

\* The position of the first FALSE in a sequence of booleans, or its length + 1
RECURSIVE first_false(_, _)
first_false(pred, i) ==
    IF i > Len(pred) \/ ~pred[i] THEN i ELSE first_false(pred, i + 1)

\* A mutation of span: a run of two or more characters is cut one
\* character short.
span_CutShort(str, pred) ==
    IF first_false(pred, 1) > 2
    THEN <<SubSeq(str, 1, first_false(pred, 1) - 2),
           SubSeq(str, first_false(pred, 1) - 1, Len(str))>>
    ELSE <<SubSeq(str, 1, first_false(pred, 1) - 1),
           SubSeq(str, first_false(pred, 1), Len(str))>>

\* span: <<maximal prefix of characters whose pred is true, remainder>>; the
\* predicate is passed as the sequence of its values on str's characters
span(str, pred) ==
    <<SubSeq(str, 1, first_false(pred, 1) - 1),
      SubSeq(str, first_false(pred, 1), Len(str))>>

\* A mutation of split_owner's test: the reserved word is tested as a prefix.
split_owner_check_PrefixNone(sp) ==
    IF sp[1] = <<>>
       \/ (Len(sp[1]) >= 4 /\ eq_ignore_ascii_case(SubSeq(sp[1], 1, 4), NONE_WORD))
    THEN <<>> ELSE <<sp>>

\* split_owner's test of the span sp = <<owner, rem>>
split_owner_check(sp) ==
    IF sp[1] = <<>> \/ eq_ignore_ascii_case(sp[1], NONE_WORD) THEN <<>> ELSE <<sp>>

\* split_owner: Some(<<owner, rem>>) or None
split_owner(str) ==
    split_owner_check(span(str, [i \in 1..Len(str) |-> is_owner_char(str[i])]))

\* name.get(i..).unwrap_or("")
get_from_or_empty(t) == IF t = <<>> THEN <<>> ELSE t[1]

\* A mutation of split_name's suffix test: ".git" is compared case-sensitively.
has_git_suffix_CaseSensitive(name) ==
    /\ StrLen(name) >= 4
    /\ get_from_or_empty(GetFrom(name, StrLen(name) - 4)) = DOT_GIT

\* split_name's match guard: name.len().checked_sub(4) is Some(i) and
\* name.get(i..) equals ".git" ignoring ASCII case
has_git_suffix(name) ==
    /\ StrLen(name) >= 4
    /\ eq_ignore_ascii_case(get_from_or_empty(GetFrom(name, StrLen(name) - 4)), DOT_GIT)

\* A mutation of the shortening: the suffix is cut from the name and not
\* put before the remainder.
shorten_SuffixLost(str, sp) ==
    IF has_git_suffix(sp[1])
    THEN <<split_at(str, StrLen(sp[1]) - 4)[1], sp[2]>>
    ELSE sp

\* split_name's second `let (name, rem)`: the span, or s.split_at(i)
shorten(str, sp) ==
    IF has_git_suffix(sp[1]) THEN split_at(str, StrLen(sp[1]) - 4) ELSE sp

\* split_name's final test of nr = <<name, rem>>
split_name_check(nr) ==
    IF nr[1] = <<>> \/ nr[1] = <<".">> \/ nr[1] = <<".", ".">> THEN <<>> ELSE <<nr>>

\* split_name: Some(<<name, rem>>) or None
split_name(str) ==
    split_name_check(shorten(str, span(str, [i \in 1..Len(str) |-> is_name_char(str[i])])))

\* split_owner_name after split_owner and the '/' succeeded, n = split_name(..)
with_name(owner, n) ==
    IF n = <<>> THEN <<>> ELSE << <<owner, n[1][1], n[1][2]>> >>

\* split_owner_name after o = split_owner(s)
owner_then_name(o) ==
    IF o = <<>> THEN <<>>
    ELSE IF ~starts_with(o[1][2], SLASH) THEN <<>>
    ELSE with_name(o[1][1], split_name(DropLen(o[1][2], 1)))

\* split_owner_name: Some(<<owner, name, rem>>) or None
split_owner_name(str) == owner_then_name(split_owner(str))

-----------------------------------------------------------------------------
(* lib.rs: the validators *)

\* matches!(r, Some((_, ""))) and matches!(r, Some((_, _, "")))
matches_whole(r) == r # <<>> /\ r[1][Len(r[1])] = <<>>

is_valid_owner(str) == matches_whole(split_owner(str))

is_valid_name(str) == matches_whole(split_name(str))

is_valid_repository(str) == matches_whole(split_owner_name(str))

-----------------------------------------------------------------------------
(* parser.rs: tokens and the pull parser *)

Literal(str)  == [kind |-> "Literal",  text |-> str]
CaseFold(str) == [kind |-> "CaseFold", text |-> str]

Matched(d)   == [ok |-> TRUE,  data |-> d]
Unmatched(d) == [ok |-> FALSE, data |-> d]

\* A mutation of the CaseFold arm: the text is compared exactly.
consume_casefold_Exact(d, text, t, u) ==
    IF t # <<>> /\ u # <<>> /\ t[1] = text
    THEN Matched(u[1]) ELSE Unmatched(d)

\* The CaseFold arm of consume: t = data.get(..i), u = data.get(i..)
consume_casefold(d, text, t, u) ==
    IF t # <<>> /\ u # <<>> /\ eq_ignore_ascii_case(t[1], text)
    THEN Matched(u[1]) ELSE Unmatched(d)

\* A mutation of consume: a Literal token is matched like a CaseFold one.
consume_AllCaseFold(d, token) ==
    consume_casefold(d, token.text, GetTo(d, StrLen(token.text)),
                     GetFrom(d, StrLen(token.text)))

\* PullParser::consume on cursor d: [ok |-> matched, data |-> the new cursor]
consume(d, token) ==
    IF token.kind = "Literal"
    THEN IF starts_with(d, token.text)
         THEN Matched(DropLen(d, Len(token.text))) ELSE Unmatched(d)
    ELSE consume_casefold(d, token.text, GetTo(d, StrLen(token.text)),
                          GetFrom(d, StrLen(token.text)))

RECURSIVE consume_rest(_, _, _)

\* A mutation of consume_seq's loop: the cursor is not put back when a
\* token fails.
consume_next_NoRestore(orig, r, rest) ==
    IF ~r.ok THEN Unmatched(r.data) ELSE consume_rest(orig, r.data, rest)

\* consume_seq's loop after one token gave r
consume_next(orig, r, rest) ==
    IF ~r.ok THEN Unmatched(orig) ELSE consume_rest(orig, r.data, rest)

\* consume_seq's loop over the remaining tokens
consume_rest(orig, d, tokens) ==
    IF tokens = <<>> THEN Matched(d)
    ELSE consume_next(orig, consume(d, Head(tokens)), Tail(tokens))

\* PullParser::consume_seq: all tokens in order, or the cursor is restored
consume_seq(d, tokens) == consume_rest(d, d, tokens)

\* PullParser::maybe_consume: the cursor after an optional token
maybe_consume(d, token) == consume(d, token).data

\* PullParser::get_owner_name: Some(<<owner, name, new cursor>>) or None
get_owner_name(d) == split_owner_name(d)

USERINFO_PUNCT == {"-", ".", "_", "~", "!", "$", "&", "'", "(", ")", "*",
                   "+", ",", ";", "=", "%", ":"}

\* A mutation of is_userinfo_char: the punctuation is not accepted.
is_userinfo_char_AlnumOnly(c) == is_ascii_alphanumeric(c)

is_userinfo_char(c) == is_ascii_alphanumeric(c) \/ c \in USERINFO_PUNCT

\* The position of the first c in str from position i on, or Len(str) + 1
RECURSIVE find_char(_, _, _)
find_char(str, c, i) ==
    IF i > Len(str) \/ str[i] = c THEN i ELSE find_char(str, c, i + 1)

\* maybe_consume_userinfo with the first '@' at position i (Len + 1: none)
strip_userinfo(d, i) ==
    IF i <= Len(d) /\ \A k \in 1..(i - 1) : is_userinfo_char(d[k])
    THEN SubSeq(d, i + 1, Len(d)) ELSE d

\* PullParser::maybe_consume_userinfo: the cursor afterwards
maybe_consume_userinfo(d) == strip_userinfo(d, find_char(d, "@", 1))

at_end(d) == d = <<>>

-----------------------------------------------------------------------------
(* parser.rs: start_patterns *)

Pattern(tokens, transition) == [tokens |-> tokens, transition |-> transition]

\* A mutation of start_patterns: the second pattern is "http" without
\* "://", which also begins every input the first pattern matches.
DefaultPatterns_SharedPrefix ==
    << Pattern(<<CaseFold(HTTPS_SCHEME)>>, "Http"),
       Pattern(<<CaseFold(<<"h","t","t","p">>)>>, "Http"),
       Pattern(<<CaseFold(API_DOT \o GITHUB_COM), Literal(REPOS_PATH)>>, "OwnerName"),
       Pattern(<<CaseFold(GIT_SCHEME \o GITHUB_COM \o SLASH)>>, "OwnerNameGit"),
       Pattern(<<Literal(GIT_AT), CaseFold(GITHUB_COM \o COLON)>>, "OwnerNameGit"),
       Pattern(<<CaseFold(SSH_SCHEME), Literal(GIT_AT), CaseFold(GITHUB_COM \o SLASH)>>,
               "OwnerNameGit") >>

DefaultPatterns ==
    << Pattern(<<CaseFold(HTTPS_SCHEME)>>, "Http"),
       Pattern(<<CaseFold(HTTP_SCHEME)>>, "Http"),
       Pattern(<<CaseFold(API_DOT \o GITHUB_COM), Literal(REPOS_PATH)>>, "OwnerName"),
       Pattern(<<CaseFold(GIT_SCHEME \o GITHUB_COM \o SLASH)>>, "OwnerNameGit"),
       Pattern(<<Literal(GIT_AT), CaseFold(GITHUB_COM \o COLON)>>, "OwnerNameGit"),
       Pattern(<<CaseFold(SSH_SCHEME), Literal(GIT_AT), CaseFold(GITHUB_COM \o SLASH)>>,
               "OwnerNameGit") >>

HostPatterns(host) ==
    << Pattern(<<CaseFold(API_DOT \o host), Literal(REPOS_PATH)>>, "OwnerName"),
       Pattern(<<CaseFold(GIT_SCHEME \o host \o SLASH)>>, "OwnerNameGit"),
       Pattern(<<Literal(GIT_AT), CaseFold(host \o COLON)>>, "OwnerNameGit"),
       Pattern(<<CaseFold(SSH_SCHEME), Literal(GIT_AT), CaseFold(host \o SLASH)>>,
               "OwnerNameGit") >>

\* `if let Ok(host) = std::env::var("GH_HOST") { if host != "github.com"`
HasOtherHost(env) == env # <<>> /\ env[1] # GITHUB_COM

\* start_patterns() under the environment value env (<<>> or <<host>>)
StartPatterns(env) ==
    IF HasOtherHost(env) THEN DefaultPatterns \o HostPatterns(env[1])
    ELSE DefaultPatterns

-----------------------------------------------------------------------------
(* parser.rs: one iteration of parse_github_url's loop, per state.  Each     *)
(* gives [returned, value, state, data, result]: either the function         *)
(* returned `value`, or the loop goes on in `state`.                         *)

Return(v, d, res) ==
    [returned |-> TRUE, value |-> v, state |-> "End", data |-> d, result |-> res]
Goto(st, d, res) ==
    [returned |-> FALSE, value |-> <<>>, state |-> st, data |-> d, result |-> res]

RECURSIVE find_map(_, _)

\* find_map's closure on the first pattern: r = parser.consume_seq(tokens)
find_map_first(d, r, pats) ==
    IF r.ok THEN [state |-> Head(pats).transition, data |-> r.data]
    ELSE find_map(d, Tail(pats))

\* start_patterns.iter().find_map(..).unwrap_or(State::Web)
find_map(d, pats) ==
    IF pats = <<>> THEN [state |-> "Web", data |-> d]
    ELSE find_map_first(d, consume_seq(d, Head(pats).tokens), pats)

\* A mutation of State::Start: userinfo is stripped whatever pattern matched.
goto_found_StripUserinfo(m, res) ==
    Goto(m.state, maybe_consume_userinfo(m.data), res)

goto_found(m, res) == Goto(m.state, m.data, res)

AtStart(d, res, pats) == goto_found(find_map(d, pats), res)

\* State::Http after the GH_HOST API pattern gave b
http_host_api(d, res, b) ==
    IF b.ok THEN Goto("OwnerName", b.data, res)
    ELSE Goto("Web", maybe_consume_userinfo(d), res)

\* State::Http after the default API pattern gave a
http_default_api(d, res, env, a) ==
    IF a.ok THEN Goto("OwnerName", a.data, res)
    ELSE IF HasOtherHost(env)
    THEN http_host_api(d, res,
             consume_seq(d, <<CaseFold(API_DOT \o env[1]), Literal(REPOS_PATH)>>))
    ELSE Goto("Web", maybe_consume_userinfo(d), res)

AtHttp(d, res, env) ==
    http_default_api(d, res, env,
        consume_seq(d, <<CaseFold(API_DOT \o GITHUB_COM), Literal(REPOS_PATH)>>))

hosts_to_try(env) ==
    IF HasOtherHost(env) THEN <<GITHUB_COM, env[1]>> ELSE <<GITHUB_COM>>

\* A mutation of State::Web's return: the result is returned whatever
\* remains of the input.
web_return_IgnoreRest(r, d) == Return(r, d, r)

\* State::Web's `return if parser.at_end() { result } else { None }`
web_return(r, d) == Return(IF at_end(d) THEN r ELSE <<>>, d, r)

\* State::Web after a host matched: g = parser.get_owner_name()
web_owner_name(d, res, g) ==
    IF g = <<>> THEN Return(<<>>, d, res)
    ELSE web_return(<< <<g[1][1], g[1][2]>> >>,
             maybe_consume(maybe_consume(g[1][3], Literal(DOT_GIT)), Literal(SLASH)))

RECURSIVE try_hosts(_, _, _)

\* State::Web's loop body: c = parser.consume(CaseFold(web_host))
try_host(d, res, hosts, c) ==
    IF ~c.ok THEN try_hosts(d, res, Tail(hosts))
    ELSE web_owner_name(c.data, res, get_owner_name(c.data))

\* A mutation of State::Web: when no host matches, owner/name is read anyway.
try_hosts_HostOptional(d, res, hosts) ==
    IF hosts = <<>> THEN web_owner_name(d, res, get_owner_name(d))
    ELSE try_host(d, res, hosts, consume(d, CaseFold(Head(hosts) \o SLASH)))

\* State::Web's `for host in hosts_to_try`, then `return None`
try_hosts(d, res, hosts) ==
    IF hosts = <<>> THEN Return(<<>>, d, res)
    ELSE try_host(d, res, hosts, consume(d, CaseFold(Head(hosts) \o SLASH)))

AtWeb(d, res, env) ==
    try_hosts(maybe_consume(d, CaseFold(WWW_DOT)), res, hosts_to_try(env))

\* A mutation of State::OwnerName: when no owner/name is found the loop
\* falls back to State::Web.
owner_name_found_FallsBack(d, res, g) ==
    IF g = <<>> THEN Goto("Web", d, res)
    ELSE Goto("End", g[1][3], << <<g[1][1], g[1][2]>> >>)

\* State::OwnerName with g = parser.get_owner_name()
owner_name_found(d, res, g) ==
    IF g = <<>> THEN Return(<<>>, d, res)
    ELSE Goto("End", g[1][3], << <<g[1][1], g[1][2]>> >>)

AtOwnerName(d, res) == owner_name_found(d, res, get_owner_name(d))

\* A mutation of the OwnerNameGit arm: the optional ".git" is not consumed.
owner_name_git_found_NoGitSuffix(d, res, g) ==
    IF g = <<>> THEN Return(<<>>, d, res)
    ELSE Goto("End", g[1][3], << <<g[1][1], g[1][2]>> >>)

\* State::OwnerNameGit with g = parser.get_owner_name()
owner_name_git_found(d, res, g) ==
    IF g = <<>> THEN Return(<<>>, d, res)
    ELSE Goto("End", maybe_consume(g[1][3], Literal(DOT_GIT)),
              << <<g[1][1], g[1][2]>> >>)

AtOwnerNameGit(d, res) == owner_name_git_found(d, res, get_owner_name(d))

\* A mutation of State::End: the result is returned whatever remains.
AtEnd_IgnoreRest(d, res) == Return(res, d, res)

AtEnd(d, res) == Return(IF at_end(d) THEN res ELSE <<>>, d, res)

\* The loop body: `state = match state { ... }`, with GH_HOST read as env
LoopBody(st, d, res, pats, env) ==
    CASE st = "Start"        -> AtStart(d, res, pats)
      [] st = "Http"         -> AtHttp(d, res, env)
      [] st = "Web"          -> AtWeb(d, res, env)
      [] st = "OwnerName"    -> AtOwnerName(d, res)
      [] st = "OwnerNameGit" -> AtOwnerNameGit(d, res)
      [] st = "End"          -> AtEnd(d, res)

RECURSIVE RunLoop(_, _, _, _, _)

\* The loop after an iteration gave n
RunNext(n, pats, env) ==
    IF n.returned THEN n.value
    ELSE RunLoop(n.state, n.data, n.result, pats, env)

RunLoop(st, d, res, pats, env) == RunNext(LoopBody(st, d, res, pats, env), pats, env)

\* parse_github_url(str) when every read of GH_HOST during the call gives env
parse_github_url(str, env) == RunLoop("Start", str, <<>>, StartPatterns(env), env)

-----------------------------------------------------------------------------
(* lib.rs: ParseError, GHRepo and its constructors *)

Ok(fullname, slash_pos) ==
    [tag |-> "Ok", fullname |-> fullname, slash_pos |-> slash_pos]
InvalidSpec(text)  == [tag |-> "InvalidSpec",  text |-> text]
InvalidOwner(text) == [tag |-> "InvalidOwner", text |-> text]
InvalidName(text)  == [tag |-> "InvalidName",  text |-> text]
Bool(b)  == [tag |-> "Bool", value |-> b]
NoValue  == [tag |-> "NoValue"]

\* A mutation of GHRepo::new: the name is checked before the owner.
GHRepo_new_NameFirst(owner, name) ==
    IF ~is_valid_name(name) THEN InvalidName(name)
    ELSE IF ~is_valid_owner(owner) THEN InvalidOwner(owner)
    ELSE Ok(owner \o SLASH \o name, StrLen(owner))

\* GHRepo::new
GHRepo_new(owner, name) ==
    IF ~is_valid_owner(owner) THEN InvalidOwner(owner)
    ELSE IF ~is_valid_name(name) THEN InvalidName(name)
    ELSE Ok(owner \o SLASH \o name, StrLen(owner))

\* GHRepo::owner and GHRepo::name: Some(slice), or None where the source
\* would reach unreachable!()
GHRepo_owner(r) == GetTo(r.fullname, r.slash_pos)
GHRepo_name(r)  == GetFrom(r.fullname, r.slash_pos + 1)

api_url(r)   == HTTPS_SCHEME \o API_DOT \o GITHUB_COM \o REPOS_PATH \o r.fullname
\* A mutation of clone_url: the ".git" suffix is left out.
clone_url_NoSuffix(r) == HTTPS_SCHEME \o GITHUB_COM \o SLASH \o r.fullname

clone_url(r) == HTTPS_SCHEME \o GITHUB_COM \o SLASH \o r.fullname \o DOT_GIT
git_url(r)   == GIT_SCHEME \o GITHUB_COM \o SLASH \o r.fullname \o DOT_GIT
html_url(r)  == HTTPS_SCHEME \o GITHUB_COM \o SLASH \o r.fullname
ssh_url(r)   == GIT_AT \o GITHUB_COM \o COLON \o r.fullname \o DOT_GIT

UrlKinds == {"api", "clone", "git", "html", "ssh"}
DerivedUrl(kind, r) ==
    CASE kind = "api"   -> api_url(r)
      [] kind = "clone" -> clone_url(r)
      [] kind = "git"   -> git_url(r)
      [] kind = "html"  -> html_url(r)
      [] kind = "ssh"   -> ssh_url(r)

\* GHRepo::from_url once parse_github_url has returned p
from_url_match(str, p) ==
    IF p # <<>> THEN GHRepo_new(p[1][1], p[1][2]) ELSE InvalidSpec(str)

\* GHRepo::from_url as a function, when every read of GH_HOST gives env
from_url(str, env) == from_url_match(str, parse_github_url(str, env))

\* A mutation of the first arm: the remainder after the name is not checked.
specifier_arm_AnyRemainder(str, r) ==
    IF r # <<>> THEN <<Ok(str, StrLen(r[1][1]))>> ELSE <<>>

\* The arm `Some((owner, _name, ""))` of the match on r = split_owner_name(s)
\* in from_str and try_from: Some(the GHRepo built from s), or None
specifier_arm(str, r) ==
    IF r # <<>> /\ r[1][3] = <<>> THEN <<Ok(str, StrLen(r[1][1]))>> ELSE <<>>

whole_specifier(str) == specifier_arm(str, split_owner_name(str))

\* A mutation of try_from's match: the second arm calls from_url, as
\* from_str does.
try_from_match_UrlFallback(str, w) ==
    IF w # <<>> THEN w[1] ELSE from_url(str, <<>>)

\* try_from's match, w being the first arm's outcome
try_from_match(str, w) == IF w # <<>> THEN w[1] ELSE InvalidSpec(str)

\* TryFrom<String> for GHRepo
try_from(str) == try_from_match(str, whole_specifier(str))

\* FromStr::from_str as a function, when every read of GH_HOST gives env
from_str_match(str, env, w) == IF w # <<>> THEN w[1] ELSE from_url(str, env)

from_str(str, env) == from_str_match(str, env, whole_specifier(str))

-----------------------------------------------------------------------------
(* lib.rs and deser.rs: conversions to strings and comparisons *)

Str(text)     == [tag |-> "Str", text |-> text]
Ordering(v)   == [tag |-> "Ordering", order |-> v]
DeError(text) == [tag |-> "DeError", text |-> text]

\* GHRepo::as_str
as_str(r) == r.fullname

\* A mutation of to_string: the Debug form, the full name in double quotes.
to_string_Debug(r) == <<"\"">> \o r.fullname \o <<"\"">>

\* ToString through Display: f.pad(&self.fullname) with no width or precision
to_string(r) == r.fullname

\* Serialize for GHRepo: the value given to serializer.serialize_str
serialize(r) == Str(r.fullname)

\* visit_str's map_err on the outcome f of input.parse::<GHRepo>()
visit_str_map_err(input, f) == IF f.tag = "Ok" THEN f ELSE DeError(input)

\* Deserialize for GHRepo on a string value, GH_HOST being env
deserialize(input, env) == visit_str_map_err(input, from_str(input, env))

\* The UTF-8 bytes of a character
PunctCodes ==
    << <<" ", 32>>, <<"!", 33>>, <<"\"", 34>>, <<"$", 36>>, <<"%", 37>>,
       <<"&", 38>>, <<"'", 39>>, <<"(", 40>>, <<")", 41>>, <<"*", 42>>,
       <<"+", 43>>, <<",", 44>>, <<"-", 45>>, <<".", 46>>, <<"/", 47>>,
       <<":", 58>>, <<";", 59>>, <<"=", 61>>, <<"?", 63>>, <<"@", 64>>,
       <<"_", 95>>, <<"~", 126>> >>

Utf8(c) ==
    IF c \in DigitSet THEN << 47 + (CHOOSE i \in 1..10 : Digits[i] = c) >>
    ELSE IF c \in UpperSet THEN << 64 + (CHOOSE i \in 1..26 : Uppers[i] = c) >>
    ELSE IF c \in LowerSet THEN << 96 + (CHOOSE i \in 1..26 : Lowers[i] = c) >>
    ELSE IF c = "é" THEN <<195, 169>>
    ELSE << PunctCodes[CHOOSE i \in 1..Len(PunctCodes) : PunctCodes[i][1] = c][2] >>

\* str.as_bytes()
RECURSIVE as_bytes(_)
as_bytes(str) == IF str = <<>> THEN <<>> ELSE Utf8(Head(str)) \o as_bytes(Tail(str))

\* Ord for [u8]: the first differing byte decides, then the lengths
RECURSIVE bytes_cmp(_, _)
bytes_cmp(a, b) ==
    IF a = <<>> /\ b = <<>> THEN "Equal"
    ELSE IF a = <<>> THEN "Less"
    ELSE IF b = <<>> THEN "Greater"
    ELSE IF Head(a) < Head(b) THEN "Less"
    ELSE IF Head(a) > Head(b) THEN "Greater"
    ELSE bytes_cmp(Tail(a), Tail(b))

\* Ord for str
str_cmp(a, b) == bytes_cmp(as_bytes(a), as_bytes(b))

\* Ord for usize
usize_cmp(a, b) == IF a < b THEN "Less" ELSE IF a > b THEN "Greater" ELSE "Equal"

\* derive(PartialEq, Eq) for GHRepo: every field is equal
GHRepo_eq(a, b) == a.fullname = b.fullname /\ a.slash_pos = b.slash_pos

\* A mutation of the derived ordering: slash_pos is compared before fullname.
GHRepo_cmp_SlashPosFirst(a, b) ==
    IF usize_cmp(a.slash_pos, b.slash_pos) # "Equal"
    THEN usize_cmp(a.slash_pos, b.slash_pos)
    ELSE str_cmp(a.fullname, b.fullname)

\* derive(PartialOrd, Ord) for GHRepo: the fields in declaration order
GHRepo_cmp(a, b) ==
    IF str_cmp(a.fullname, b.fullname) # "Equal"
    THEN str_cmp(a.fullname, b.fullname)
    ELSE usize_cmp(a.slash_pos, b.slash_pos)

\* PartialEq<str> for GHRepo
GHRepo_eq_str(a, other) == a.fullname = other

\* PartialOrd<str> for GHRepo
GHRepo_partial_cmp_str(a, other) == str_cmp(a.fullname, other)

-----------------------------------------------------------------------------
(* lib.rs: LocalRepo and LocalRepoError.  A git child process is modelled   *)
(* by its outcome: whether it could be spawned, its exit status and the     *)
(* bytes it wrote to its standard output.                                   *)

BRANCH_DOT == <<"b","r","a","n","c","h",".">>
DOT_REMOTE == <<".","r","e","m","o","t","e">>

CouldNotExecute     == [tag |-> "CouldNotExecute"]
CommandFailed(st)   == [tag |-> "CommandFailed", status |-> st]
CurdirError         == [tag |-> "CurdirError"]
DetachedHead        == [tag |-> "DetachedHead"]
NoSuchRemote(r)     == [tag |-> "NoSuchRemote", remote |-> r]
NoUpstream(b)       == [tag |-> "NoUpstream", branch |-> b]
InvalidUtf8         == [tag |-> "InvalidUtf8"]
InvalidRemoteURL(e) == [tag |-> "InvalidRemoteURL", source |-> e]

\* std::process::ExitStatus: code() is Some(n) after exit(n), None when the
\* child was killed by a signal; success() is "exited with code 0"
Exited(n)   == [code |-> <<n>>]
Signaled    == [code |-> <<>>]
success(st) == st.code = <<0>>

\* What Command::output() gives: Err when the child could not be spawned,
\* else the child's status and standard output
SpawnFailed          == [spawned |-> FALSE, status |-> Signaled, stdout |-> <<>>]
Output(st, bytes)    == [spawned |-> TRUE, status |-> st, stdout |-> bytes]

\* The characters of the model's alphabet that are one byte in UTF-8
AsciiChars ==
    LowerSet \cup UpperSet \cup DigitSet
        \cup {PunctCodes[i][1] : i \in 1..Len(PunctCodes)}

\* The line feed, which git writes after a value
LF == 10

\* The character a byte below 128 encodes
char_of(b) == IF b = LF THEN "\n" ELSE CHOOSE c \in AsciiChars : Utf8(c) = <<b>>

\* str::from_utf8 followed by the characters of the string: Some(text) or
\* None.  Of the multi-byte sequences only the one of the model's
\* alphabet (C3 A9) is well formed here.
RECURSIVE decode_utf8(_, _)
decode_utf8(bytes, acc) ==
    IF bytes = <<>> THEN <<acc>>
    ELSE IF Head(bytes) < 128
    THEN decode_utf8(Tail(bytes), Append(acc, char_of(Head(bytes))))
    ELSE IF Len(bytes) >= 2 /\ bytes[1] = 195 /\ bytes[2] = 169
    THEN decode_utf8(Tail(Tail(bytes)), Append(acc, "é"))
    ELSE <<>>

from_utf8(bytes) == decode_utf8(bytes, <<>>)

\* char::is_whitespace on the model's alphabet
is_whitespace(c) == c \in {" ", "\n"}

\* str::trim
RECURSIVE trim_start(_)
trim_start(str) ==
    IF str # <<>> /\ is_whitespace(Head(str)) THEN trim_start(Tail(str)) ELSE str

RECURSIVE trim_end(_)
trim_end(str) ==
    IF str # <<>> /\ is_whitespace(str[Len(str)])
    THEN trim_end(SubSeq(str, 1, Len(str) - 1))
    ELSE str

trim(str) == trim_end(trim_start(str))

\* read's `str::from_utf8(&out.stdout)?.trim().to_string()`
read_stdout(t) == IF t = <<>> THEN InvalidUtf8 ELSE Str(trim(t[1]))

\* LocalRepo::read on the outcome of the git child
read(out) ==
    IF ~out.spawned THEN CouldNotExecute
    ELSE IF success(out.status) THEN read_stdout(from_utf8(out.stdout))
    ELSE CommandFailed(out.status)

\* `Ok(GHRepo::from_url(&url)?)`: a ParseError becomes InvalidRemoteURL
wrap_parse_error(g) == IF g.tag = "Ok" THEN g ELSE InvalidRemoteURL(g)

\* A mutation of github_remote's match: every unsuccessful exit is taken
\* for a missing remote.
github_remote_match_AnyExitCode(remote, r, env) ==
    IF r.tag = "Str" THEN wrap_parse_error(from_url(r.text, env))
    ELSE IF r.tag = "CommandFailed" THEN NoSuchRemote(remote)
    ELSE r

\* github_remote's match on r = self.read(["remote", "get-url", "--", remote])
github_remote_match(remote, r, env) ==
    IF r.tag = "Str" THEN wrap_parse_error(from_url(r.text, env))
    ELSE IF r.tag = "CommandFailed" /\ r.status.code = <<2>>
    THEN NoSuchRemote(remote)
    ELSE r

\* The arguments github_remote and branch_upstream give to git
remote_get_url_args(remote) == <<"remote", "get-url", "--", remote>>
config_get_args(branch) ==
    <<"config", "--get", "--", BRANCH_DOT \o branch \o DOT_REMOTE>>

\* A mutation of branch_upstream's match: exit code 1 is not told apart
\* from the other failures.
branch_upstream_match_Unchanged(branch, r) == r

\* branch_upstream's match on r = self.read(["config", "--get", ...]) in
\* the arms that return at once
branch_upstream_match(branch, r) ==
    IF r.tag = "CommandFailed" /\ r.status.code = <<1>>
    THEN NoUpstream(branch)
    ELSE r

-----------------------------------------------------------------------------
(* lib.rs: Display for ParseError and LocalRepoError; ghrepo-cli/src/main.rs: *)
(* run and the Run arm of Command::run.  Standard output and standard error  *)
(* are the characters written to them.                                       *)

MSG_INVALID_SPEC ==
    <<"i","n","v","a","l","i","d"," ","G","i","t","H","u","b"," ","r",
      "e","p","o","s","i","t","o","r","y"," ","s","p","e","c",":"," ">>
MSG_INVALID_OWNER ==
    <<"i","n","v","a","l","i","d"," ","G","i","t","H","u","b"," ","r",
      "e","p","o","s","i","t","o","r","y"," ","o","w","n","e","r",":",
      " ">>
MSG_INVALID_NAME ==
    <<"i","n","v","a","l","i","d"," ","G","i","t","H","u","b"," ","r",
      "e","p","o","s","i","t","o","r","y"," ","n","a","m","e",":"," ">>
MSG_COULD_NOT_EXECUTE ==
    <<"f","a","i","l","e","d"," ","t","o"," ","e","x","e","c","u","t",
      "e"," ","G","i","t"," ","c","o","m","m","a","n","d",":"," ">>
MSG_COMMAND_FAILED ==
    <<"G","i","t"," ","c","o","m","m","a","n","d"," ","e","x","i","t",
      "e","d"," ","u","n","s","u","c","c","e","s","s","f","u","l","l",
      "y",":"," ">>
MSG_CURDIR_ERROR ==
    <<"c","o","u","l","d"," ","n","o","t"," ","d","e","t","e","r","m",
      "i","n","e"," ","c","u","r","r","e","n","t"," ","d","i","r","e",
      "c","t","o","r","y",":"," ">>
MSG_DETACHED_HEAD ==
    <<"G","i","t"," ","r","e","p","o","s","i","t","o","r","y"," ","i",
      "s"," ","i","n"," ","a"," ","d","e","t","a","c","h","e","d"," ",
      "H","E","A","D"," ","s","t","a","t","e">>
MSG_NO_SUCH_REMOTE ==
    <<"n","o"," ","s","u","c","h"," ","r","e","m","o","t","e"," ","i",
      "n"," ","G","i","t"," ","r","e","p","o","s","i","t","o","r","y",
      ":"," ">>
MSG_NO_UPSTREAM ==
    <<"n","o"," ","u","p","s","t","r","e","a","m"," ","r","e","m","o",
      "t","e"," ","c","o","n","f","i","g","u","r","e","d"," ","f","o",
      "r"," ","G","i","t"," ","b","r","a","n","c","h",":"," ">>
MSG_INVALID_UTF8 ==
    <<"f","a","i","l","e","d"," ","t","o"," ","d","e","c","o","d","e",
      " ","o","u","t","p","u","t"," ","f","r","o","m"," ","G","i","t",
      " ","c","o","m","m","a","n","d",":"," ">>
MSG_INVALID_REMOTE_URL ==
    <<"r","e","p","o","s","i","t","o","r","y"," ","r","e","m","o","t",
      "e"," ","U","R","L"," ","i","s"," ","n","o","t"," ","a"," ","G",
      "i","t","H","u","b"," ","U","R","L",":"," ">>
GHREPO_COLON ==
    <<"g","h","r","e","p","o",":"," ">>

\* Display of the values of std that the errors carry.  The io::Error and
\* the Utf8Error are each given one fixed message, what they say being the
\* operating system's and the standard library's matter; an ExitStatus is
\* "exit status: n" or "signal: n".
MSG_IO_ERROR ==
    <<"N","o"," ","s","u","c","h"," ","f","i","l","e"," ","o","r"," ",
      "d","i","r","e","c","t","o","r","y"," ","(","o","s"," ","e","r",
      "r","o","r"," ","2",")">>
MSG_UTF8_ERROR ==
    <<"i","n","v","a","l","i","d"," ","u","t","f","-","8"," ","s","e",
      "q","u","e","n","c","e">>
MSG_EXIT_STATUS ==
    <<"e","x","i","t"," ","s","t","a","t","u","s",":"," ">>
MSG_SIGNAL ==
    <<"s","i","g","n","a","l",":"," ">>

\* Display for an integer in 0..999
decimal(n) ==
    IF n < 10 THEN <<Digits[n + 1]>>
    ELSE IF n < 100 THEN <<Digits[(n \div 10) + 1], Digits[(n % 10) + 1]>>
    ELSE <<Digits[(n \div 100) + 1], Digits[((n \div 10) % 10) + 1],
           Digits[(n % 10) + 1]>>

\* Display for ExitStatus (the signal of the model is SIGKILL)
display_status(st) ==
    IF st.code # <<>> THEN MSG_EXIT_STATUS \o decimal(st.code[1])
    ELSE MSG_SIGNAL \o decimal(9)

\* {:?} of a str: in double quotes, with the quote, the backslash and the
\* line feed escaped
RECURSIVE escape_debug(_)
escape_debug(str) ==
    IF str = <<>> THEN <<>>
    ELSE (CASE Head(str) = "\"" -> <<"\\", "\"">>
            [] Head(str) = "\\" -> <<"\\", "\\">>
            [] Head(str) = "\n" -> <<"\\", "n">>
            [] OTHER -> <<Head(str)>>) \o escape_debug(Tail(str))

debug_str(str) == <<"\"">> \o escape_debug(str) \o <<"\"">>

\* Display for ParseError
display_parse_error(e) ==
    CASE e.tag = "InvalidSpec"  -> MSG_INVALID_SPEC \o debug_str(e.text)
      [] e.tag = "InvalidOwner" -> MSG_INVALID_OWNER \o debug_str(e.text)
      [] e.tag = "InvalidName"  -> MSG_INVALID_NAME \o debug_str(e.text)

\* Display for LocalRepoError
display_error(e) ==
    CASE e.tag = "CouldNotExecute" -> MSG_COULD_NOT_EXECUTE \o MSG_IO_ERROR
      [] e.tag = "CommandFailed" -> MSG_COMMAND_FAILED \o display_status(e.status)
      [] e.tag = "CurdirError" -> MSG_CURDIR_ERROR \o MSG_IO_ERROR
      [] e.tag = "DetachedHead" -> MSG_DETACHED_HEAD
      [] e.tag = "NoSuchRemote" -> MSG_NO_SUCH_REMOTE \o debug_str(e.remote)
      [] e.tag = "NoUpstream" -> MSG_NO_UPSTREAM \o debug_str(e.branch)
      [] e.tag = "InvalidUtf8" -> MSG_INVALID_UTF8 \o MSG_UTF8_ERROR
      [] e.tag = "InvalidRemoteURL" ->
            MSG_INVALID_REMOTE_URL \o display_parse_error(e.source)

\* One line of run's JSON template: four spaces, the key in quotes, a colon
\* and the value in quotes, then a comma unless it is the last line
json_field(key, value, comma) ==
    <<" ", " ", " ", " ", "\"">> \o key \o <<"\"", ":", " ", "\"">> \o value
        \o <<"\"">> \o (IF comma THEN <<",">> ELSE <<>>) \o <<"\n">>

KEY_OWNER     == <<"o","w","n","e","r">>
KEY_NAME      == <<"n","a","m","e">>
KEY_FULLNAME  == <<"f","u","l","l","n","a","m","e">>
KEY_API_URL   == <<"a","p","i","_","u","r","l">>
KEY_CLONE_URL == <<"c","l","o","n","e","_","u","r","l">>
KEY_GIT_URL   == <<"g","i","t","_","u","r","l">>
KEY_HTML_URL  == <<"h","t","m","l","_","u","r","l">>
KEY_SSH_URL   == <<"s","s","h","_","u","r","l">>

\* run's format!(...) of the JSON object for gr
json_object(gr) ==
    <<"{", "\n">>
        \o json_field(KEY_OWNER, GHRepo_owner(gr)[1], TRUE)
        \o json_field(KEY_NAME, GHRepo_name(gr)[1], TRUE)
        \o json_field(KEY_FULLNAME, to_string(gr), TRUE)
        \o json_field(KEY_API_URL, api_url(gr), TRUE)
        \o json_field(KEY_CLONE_URL, clone_url(gr), TRUE)
        \o json_field(KEY_GIT_URL, git_url(gr), TRUE)
        \o json_field(KEY_HTML_URL, html_url(gr), TRUE)
        \o json_field(KEY_SSH_URL, ssh_url(gr), FALSE)
        \o <<"}">>

\* run after `let gr = lr.github_remote(&remote)?`, g being github_remote's
\* result
run_format(g, json) ==
    IF g.tag # "Ok" THEN g
    ELSE IF json THEN Str(json_object(g))
    ELSE Str(to_string(g))

\* Command::run's match on r = run(dirpath, json, remote): what println!
\* writes to standard output
run_stdout(r) == IF r.tag = "Str" THEN r.text \o <<"\n">> ELSE <<>>

\* what eprintln! writes to standard error
run_stderr(r) ==
    IF r.tag \in {"Str", "CommandFailed", "NoSuchRemote"} THEN <<>>
    ELSE GHREPO_COLON \o display_error(r) \o <<"\n">>

\* A mutation of the exit code: a failed git command always gives 1.
run_exit_code_AlwaysOne(r) ==
    IF r.tag = "Str" THEN 0
    ELSE IF r.tag = "NoSuchRemote" THEN 2
    ELSE 1

\* the exit code: 0 when main returns Ok(()), else the argument of exit
run_exit_code(r) ==
    IF r.tag = "Str" THEN 0
    ELSE IF r.tag = "CommandFailed"
    THEN (IF r.status.code # <<>> THEN r.status.code[1] ELSE 1)
    ELSE IF r.tag = "NoSuchRemote" THEN 2
    ELSE 1

-----------------------------------------------------------------------------
(* Bounds and input sets *)

MaxOwnerFrags == 3  \* fragments concatenated into a candidate owner
MaxNameFrags  == 3  \* fragments concatenated into a candidate name
MaxNewFrags   == 2  \* fragments in each argument of GHRepo::new
MaxGitSuffix  == 2  \* ".git" suffixes appended to a name in an input

Cat(A, B) == {a \o b : a \in A, b \in B}

RECURSIVE Words(_, _)
Words(frags, n) ==
    IF n = 0 THEN {<<>>}
    ELSE LET w == Words(frags, n - 1) IN w \cup Cat(w, frags)

RECURSIVE Repeat(_, _)
Repeat(str, n) == IF n = 0 THEN <<>> ELSE str \o Repeat(str, n - 1)

OwnerFrags == { <<"n","o","n","e">>, <<"N","O","N","E">>, <<"N","o","n","e">>,
                <<"l","y">>, <<"o","n","e">>, <<"-">>, <<"_">>, <<"0">>,
                <<".">>, <<"/">>, <<"é">> }
OwnerWords == Words(OwnerFrags, MaxOwnerFrags)

NameFrags == { <<".","g","i","t">>, <<".","G","I","T">>, <<".","G","i","t">>,
               <<".">>, <<"r">>, <<"t">>, <<".","t">>, <<"-">>, <<"_">>,
               <<"/">>, <<"é">> }
NameWords == Words(NameFrags, MaxNameFrags)

NewOwnerFrags == { <<"n","o","n","e">>, <<"o">>, <<"-">>, <<".">> }
NewNameFrags  == { <<"n">>, <<".","g","i","t">>, <<".">>, <<"/">> }
NewOwners == Words(NewOwnerFrags, MaxNewFrags)
NewNames  == Words(NewNameFrags, MaxNewFrags)

\* Values of GH_HOST
X_IO     == <<"x",".","i","o">>
WWW_X_IO == <<"w","w","w",".","x",".","i","o">>
AT_HOST  == <<"@">> \o GITHUB_COM
HostValues == { <<>>, <<GITHUB_COM>>, <<X_IO>>, <<WWW_X_IO>>, <<AT_HOST>> }

\* URL-shaped inputs: a head (scheme, userinfo, host, separator) and a tail
\* (owner "/" name, ".git" suffixes, trailer)
GITHUB_MIXED == <<"G","i","t","H","u","b",".","C","O","M">>
Schemes   == { <<>>, HTTPS_SCHEME, <<"H","T","T","P",":","/","/">> }
Userinfos == { <<>>, <<"u",":","p","@">>, <<"a","p","i",".","@">> }
WebHosts  == { GITHUB_COM \o SLASH,
               <<"W","W","W",".">> \o GITHUB_MIXED \o SLASH,
               API_DOT \o GITHUB_COM \o REPOS_PATH,
               API_DOT \o GITHUB_COM \o <<"/","R","E","P","O","S","/">>,
               X_IO \o SLASH,
               WWW_X_IO \o SLASH,
               API_DOT \o X_IO \o REPOS_PATH }
GitHeads  == Cat({GIT_SCHEME, <<"G","I","T",":","/","/">>},
                 {GITHUB_COM \o SLASH, X_IO \o SLASH})
SshHeads  == Cat(Cat({GIT_AT, <<"G","I","T","@">>, SSH_SCHEME \o GIT_AT,
                      <<"S","S","H",":","/","/">> \o GIT_AT},
                     {GITHUB_MIXED, X_IO}),
                 {COLON, SLASH})
Heads == Cat(Cat(Schemes, Userinfos), WebHosts) \cup GitHeads \cup SshHeads \cup {<<>>}

TailOwners == { <<"o">>, NONE_WORD, <<"r","e","p","o","s">> }
TailNames  == { <<"n">> \o Repeat(DOT_GIT, k) : k \in 0..MaxGitSuffix }
                  \cup { <<"n",".","G","I","T">> }
Trailers   == { <<>>, SLASH }
Tails == Cat(Cat(Cat(TailOwners, {SLASH}), TailNames), Trailers)

UrlInputs == Cat(Heads, Tails)

\* Inputs of from_str_with_owner and try_from: bare names, specifiers and URLs
BareInputs == TailNames \cup Tails
                \cup Cat({HTTPS_SCHEME \o GITHUB_COM \o SLASH, GIT_AT \o GITHUB_COM \o COLON},
                         Tails)
DefaultOwners == { <<"d">>, NONE_WORD }

\* Arguments of GHRepo::new in the URL specification
SomeOwners == { <<"o">>, NONE_WORD, <<"w","w","w">>, <<"N","o","n","e","-">> }
SomeNames  == { <<"n">>, <<"n">> \o DOT_GIT, <<".","g","i","t","t">>,
                <<"r",".","g","i","t",".","t">>, <<".",".">> }

-----------------------------------------------------------------------------
(* The state machine *)

Init ==
    /\ GH_HOST = <<>>
    /\ pc = "idle"
    /\ op = "none"
    /\ s = <<>>
    /\ owner_arg = <<>>
    /\ name_arg = <<>>
    /\ start_patterns = <<>>
    /\ state = "NotRun"
    /\ data = <<>>
    /\ result = <<>>
    /\ parsed = <<>>
    /\ ret = NoValue
    /\ host_at_call = <<>>
    /\ made_from = <<>>
    /\ git = <<>>
    /\ command = <<>>
    /\ stdout = <<>>
    /\ stderr = <<>>
    /\ exit_code = <<>>
    /\ pull_tokens = <<>>

\* An operation that returns r without calling parse_github_url
Returns(o, str, ow, nm, r, mf) ==
    /\ pc' = "done"
    /\ op' = o
    /\ s' = str
    /\ owner_arg' = ow
    /\ name_arg' = nm
    /\ start_patterns' = <<>>
    /\ state' = "NotRun"
    /\ data' = <<>>
    /\ result' = <<>>
    /\ parsed' = <<>>
    /\ ret' = r
    /\ host_at_call' = GH_HOST
    /\ made_from' = mf
    /\ UNCHANGED GH_HOST
    /\ UNCHANGED lvars

\* An operation that enters parse_github_url(str): start_patterns() is
\* evaluated and the parser and loop locals are initialised
EntersParse(o, str, ow, mf) ==
    /\ pc' = "parsing"
    /\ op' = o
    /\ s' = str
    /\ owner_arg' = ow
    /\ name_arg' = <<>>
    /\ start_patterns' = StartPatterns(GH_HOST)
    /\ state' = "Start"
    /\ data' = str
    /\ result' = <<>>
    /\ parsed' = <<>>
    /\ ret' = NoValue
    /\ host_at_call' = GH_HOST
    /\ made_from' = mf
    /\ UNCHANGED GH_HOST
    /\ UNCHANGED lvars

\* from_str's match, w being the first arm's outcome
FromStrMatch(o, str, ow, mf, w) ==
    IF w # <<>> THEN Returns(o, str, ow, <<>>, w[1], mf)
    ELSE EntersParse(o, str, ow, mf)

\* FromStr::from_str up to its return or its call of from_url
FromStrBody(o, str, ow, mf) == FromStrMatch(o, str, ow, mf, whole_specifier(str))

\* A mutation of from_str_with_owner: the arguments of GHRepo::new swapped.
FromStrWithOwnerBody_SwappedArgs(str, owner) ==
    IF is_valid_name(str)
    THEN Returns("from_str_with_owner", str, owner, <<>>, GHRepo_new(str, owner), <<>>)
    ELSE FromStrBody("from_str_with_owner", str, owner, <<>>)

\* GHRepo::from_str_with_owner up to its return or its call of from_url
FromStrWithOwnerBody(str, owner) ==
    IF is_valid_name(str)
    THEN Returns("from_str_with_owner", str, owner, <<>>, GHRepo_new(owner, str), <<>>)
    ELSE FromStrBody("from_str_with_owner", str, owner, <<>>)

CallIsValidOwner(str) ==
    /\ pc = "idle"
    /\ Returns("is_valid_owner", str, <<>>, <<>>, Bool(is_valid_owner(str)), <<>>)

CallIsValidName(str) ==
    /\ pc = "idle"
    /\ Returns("is_valid_name", str, <<>>, <<>>, Bool(is_valid_name(str)), <<>>)

CallNew(owner, name) ==
    /\ pc = "idle"
    /\ Returns("new", <<>>, owner, name, GHRepo_new(owner, name), <<>>)

CallTryFrom(str) ==
    /\ pc = "idle"
    /\ Returns("try_from", str, <<>>, <<>>, try_from(str), <<>>)

CallFromUrl(str) ==
    /\ pc = "idle"
    /\ EntersParse("from_url", str, <<>>, <<>>)

CallFromStr(str) ==
    /\ pc = "idle"
    /\ FromStrBody("from_str", str, <<>>, <<>>)

CallFromStrWithOwner(str, owner) ==
    /\ pc = "idle"
    /\ FromStrWithOwnerBody(str, owner)

\* from_str applied to a URL derived from the GHRepo that new just returned
CallFromStrOfUrl(kind) ==
    /\ pc = "done"
    /\ op = "new"
    /\ ret.tag = "Ok"
    /\ FromStrBody("from_str", DerivedUrl(kind, ret), <<>>, <<ret>>)

\* The loop goes on, or parse_github_url returns and from_url finishes with
\* its match on the returned value
Advance(n) ==
    /\ data' = n.data
    /\ result' = n.result
    /\ IF n.returned
       THEN /\ state' = state
            /\ parsed' = n.value
            /\ ret' = from_url_match(s, n.value)
            /\ pc' = "done"
       ELSE /\ state' = n.state
            /\ UNCHANGED <<parsed, ret, pc>>

\* One iteration of parse_github_url's loop: the match on the current state
Iterate ==
    /\ Advance(LoopBody(state, data, result, start_patterns, GH_HOST))
    /\ UNCHANGED <<GH_HOST, op, s, owner_arg, name_arg, start_patterns,
                   host_at_call, made_from>>
    /\ UNCHANGED lvars

IterStart ==
    /\ pc = "parsing"
    /\ state = "Start"
    /\ Iterate

IterHttp ==
    /\ pc = "parsing"
    /\ state = "Http"
    /\ Iterate

IterWeb ==
    /\ pc = "parsing"
    /\ state = "Web"
    /\ Iterate

IterOwnerName ==
    /\ pc = "parsing"
    /\ state = "OwnerName"
    /\ Iterate

IterOwnerNameGit ==
    /\ pc = "parsing"
    /\ state = "OwnerNameGit"
    /\ Iterate

IterEnd ==
    /\ pc = "parsing"
    /\ state = "End"
    /\ Iterate

\* The caller drops the returned value
Drop ==
    /\ pc = "done"
    /\ pc' = "idle"
    /\ op' = "none"
    /\ s' = <<>>
    /\ owner_arg' = <<>>
    /\ name_arg' = <<>>
    /\ start_patterns' = <<>>
    /\ state' = "NotRun"
    /\ data' = <<>>
    /\ result' = <<>>
    /\ parsed' = <<>>
    /\ ret' = NoValue
    /\ host_at_call' = GH_HOST
    /\ made_from' = <<>>
    /\ git' = <<>>
    /\ command' = <<>>
    /\ stdout' = <<>>
    /\ stderr' = <<>>
    /\ exit_code' = <<>>
    /\ pull_tokens' = <<>>
    /\ UNCHANGED GH_HOST

\* The environment variable is set or removed between calls
SetEnv(h) ==
    /\ pc = "idle"
    /\ h # GH_HOST
    /\ GH_HOST' = h
    /\ host_at_call' = h
    /\ UNCHANGED <<pc, op, s, owner_arg, name_arg, start_patterns, state,
                   data, result, parsed, ret, made_from>>
    /\ UNCHANGED lvars

\* Another thread sets or removes the environment variable during a call
SetEnvDuringParse(h) ==
    /\ pc = "parsing"
    /\ h # GH_HOST
    /\ GH_HOST' = h
    /\ UNCHANGED <<pc, op, s, owner_arg, name_arg, start_patterns, state,
                   data, result, parsed, ret, host_at_call, made_from>>
    /\ UNCHANGED lvars

\* The constructors and the URL recogniser, GH_HOST changing between calls
Next ==
    \/ \E h \in HostValues : SetEnv(h)
    \/ \E o \in SomeOwners, n \in SomeNames : CallNew(o, n)
    \/ \E k \in UrlKinds : CallFromStrOfUrl(k)
    \/ \E str \in UrlInputs : CallFromUrl(str)
    \/ \E str \in UrlInputs : CallFromStr(str)
    \/ \E str \in BareInputs, o \in DefaultOwners : CallFromStrWithOwner(str, o)
    \/ \E str \in BareInputs : CallTryFrom(str)
    \/ IterStart
    \/ IterHttp
    \/ IterWeb
    \/ IterOwnerName
    \/ IterOwnerNameGit
    \/ IterEnd
    \/ Drop

Spec == Init /\ [][Next]_vars

\* The validators and GHRepo::new on candidate owners and names
NextValid ==
    \/ \E str \in OwnerWords : CallIsValidOwner(str)
    \/ \E str \in NameWords : CallIsValidName(str)
    \/ \E o \in NewOwners, n \in NewNames : CallNew(o, n)
    \/ Drop

SpecValid == Init /\ [][NextValid]_vars

\* The URL recogniser while another thread changes GH_HOST
RaceInputs == Cat(Heads, {<<"o","/","n">>, <<"o","/","n">> \o DOT_GIT})

NextRace ==
    \/ \E h \in HostValues : SetEnv(h)
    \/ \E h \in HostValues : SetEnvDuringParse(h)
    \/ \E str \in RaceInputs : CallFromUrl(str)
    \/ IterStart
    \/ IterHttp
    \/ IterWeb
    \/ IterOwnerName
    \/ IterOwnerNameGit
    \/ IterEnd
    \/ Drop

SpecRace == Init /\ [][NextRace]_vars

-----------------------------------------------------------------------------
(* The URL forms: inputs built from a head (scheme, userinfo, www., host,  *)
(* path) and a tail (owner "/" name and trailing text)                      *)

MaxUserinfoFrags == 2  \* fragments concatenated into a userinfo field

UpperOf == [c \in LowerSet |-> Uppers[CHOOSE i \in 1..26 : Lowers[i] = c]]

to_ascii_uppercase(c) == IF c \in LowerSet THEN UpperOf[c] ELSE c

\* str written in a case mode: as it is, in upper case, or alternating
Recase(str, mode) ==
    CASE mode = "lower" -> str
      [] mode = "upper" -> [i \in 1..Len(str) |-> to_ascii_uppercase(str[i])]
      [] mode = "mixed" -> [i \in 1..Len(str) |->
                               IF i % 2 = 1 THEN to_ascii_uppercase(str[i]) ELSE str[i]]

\* A part of a head: its text and its kind, "ci" for the scheme, www. and
\* host, "cs" for /repos/ and git@, "ui" for a userinfo field
Part(text, kind) == [text |-> text, kind |-> kind]

U_P_AT == <<"u",":","p","@">>

SchemeParts(scheme) == IF scheme = <<>> THEN <<>> ELSE <<Part(scheme, "ci")>>
UserinfoParts(ui)   == IF ui = <<>> THEN <<>> ELSE <<Part(ui, "ui")>>
WwwParts(www)       == IF www THEN <<Part(WWW_DOT, "ci")>> ELSE <<>>

\* [http[s]://[userinfo@]][www.]host/ ; userinfo without a scheme is no form
WebHead(scheme, ui, www, host) ==
    [form  |-> IF ui # <<>> /\ scheme = <<>> THEN "none" ELSE "web",
     host  |-> host,
     parts |-> SchemeParts(scheme) \o UserinfoParts(ui) \o WwwParts(www)
                 \o <<Part(host \o SLASH, "ci")>>]

\* [http[s]://]api.host/repos/ ; userinfo makes it no form
ApiHead(scheme, ui, host) ==
    [form  |-> IF ui # <<>> THEN "none" ELSE "api",
     host  |-> host,
     parts |-> SchemeParts(scheme) \o UserinfoParts(ui)
                 \o <<Part(API_DOT \o host, "ci"), Part(REPOS_PATH, "cs")>>]

\* git://host/
GitHead(host) ==
    [form |-> "git", host |-> host,
     parts |-> <<Part(GIT_SCHEME \o host \o SLASH, "ci")>>]

\* git@host:
ScpHead(host) ==
    [form |-> "git", host |-> host,
     parts |-> <<Part(GIT_AT, "cs"), Part(host \o COLON, "ci")>>]

\* ssh://git@host/
SshHead(host) ==
    [form |-> "git", host |-> host,
     parts |-> <<Part(SSH_SCHEME, "ci"), Part(GIT_AT, "cs"),
                 Part(host \o SLASH, "ci")>>]

HeadsOf(host) ==
    {WebHead(sc, ui, w, host) : sc \in {<<>>, HTTPS_SCHEME, HTTP_SCHEME},
                                ui \in {<<>>, U_P_AT}, w \in BOOLEAN}
      \cup {ApiHead(sc, ui, host) : sc \in {<<>>, HTTPS_SCHEME}, ui \in {<<>>, U_P_AT}}
      \cup {GitHead(host), ScpHead(host), SshHead(host)}

\* The text of a head with its "ci" parts in mode ci and its "cs" parts in
\* mode cs
RECURSIVE Render(_, _, _)
Render(parts, ci, cs) ==
    IF parts = <<>> THEN <<>>
    ELSE Recase(Head(parts).text,
                CASE Head(parts).kind = "ci" -> ci
                  [] Head(parts).kind = "cs" -> cs
                  [] Head(parts).kind = "ui" -> "lower")
           \o Render(Tail(parts), ci, cs)

CaseModes == { <<"lower", "lower">>, <<"upper", "lower">>, <<"mixed", "lower">>,
               <<"lower", "upper">>, <<"lower", "mixed">> }

FormHeads == HeadsOf(GITHUB_COM) \cup HeadsOf(X_IO)
HeadTexts == {Render(hd.parts, m[1], m[2]) : hd \in FormHeads, m \in CaseModes}

O_N == <<"o","/","n">>
\* A ".git" suffix written with upper-case letters
UpperGitTrailers == { <<".","G","I","T">>, <<".","G","i","t","/">>, <<".","g","i","T">> }
FormTrailers == { <<>>, DOT_GIT, SLASH, DOT_GIT \o SLASH, SLASH \o DOT_GIT,
                  SLASH \o SLASH, DOT_GIT \o DOT_GIT, <<"/","m">>, <<"?">> }
                    \cup UpperGitTrailers
FormTails == Cat({O_N}, FormTrailers)

FormInputs == Cat(HeadTexts, FormTails)

\* Bare specifiers followed by trailing text
SpecifierInputs == Cat({O_N, <<"O","/","n">>, <<"o","-","o","/","n",".","t">>},
                       FormTrailers \cup {<<"t">>})

\* https://<userinfo>@github.com/o/n
UserinfoFrags == { <<"a">>, <<"Z","9">>, <<":">>, <<"-",".","_","~">>,
                   <<"!","$","&","'","(",")">>, <<"*","+",",",";","=","%">>,
                   <<" ">>, <<"/">>, <<"@">>, <<"é">> }
UserinfoWords == Words(UserinfoFrags, MaxUserinfoFrags)
AT_GITHUB_O_N == <<"@">> \o GITHUB_COM \o SLASH \o O_N
UserinfoInputs == Cat(Cat({HTTPS_SCHEME}, UserinfoWords), {AT_GITHUB_O_N})

\* Values of GH_HOST: unset, a host name, a host name without a dot
O_HOST == <<"o">>
FormHosts == { <<>>, <<X_IO>>, <<O_HOST>> }

\* The URL recogniser and from_str on the URL forms
NextForms ==
    \/ \E h \in FormHosts : SetEnv(h)
    \/ \E str \in FormInputs \cup UserinfoInputs : CallFromUrl(str)
    \/ \E str \in SpecifierInputs : CallFromStr(str)
    \/ IterStart
    \/ IterHttp
    \/ IterWeb
    \/ IterOwnerName
    \/ IterOwnerNameGit
    \/ IterEnd
    \/ Drop

SpecForms == Init /\ [][NextForms]_vars

-----------------------------------------------------------------------------
(* The methods of a GHRepo: derived URLs, conversions to and from strings,  *)
(* comparisons.  Each is called on the GHRepo the last operation returned.  *)

\* r.api_url(), r.clone_url(), r.git_url(), r.html_url(), r.ssh_url(); op
\* records which
CallDerivedUrl(kind) ==
    /\ pc = "done"
    /\ ret.tag = "Ok"
    /\ Returns(kind, <<>>, <<>>, <<>>, Str(DerivedUrl(kind, ret)), <<ret>>)

\* r.to_string().parse::<GHRepo>()
CallFromStrOfString ==
    /\ pc = "done"
    /\ ret.tag = "Ok"
    /\ FromStrBody("from_str", to_string(ret), <<>>, <<ret>>)

\* r.serialize(serializer)
CallSerialize ==
    /\ pc = "done"
    /\ ret.tag = "Ok"
    /\ Returns("serialize", <<>>, <<>>, <<>>, serialize(ret), <<ret>>)

\* GHRepo::deserialize on the string that serialize emitted
CallDeserialize ==
    /\ pc = "done"
    /\ op = "serialize"
    /\ Returns("deserialize", ret.text, <<>>, <<>>,
               deserialize(ret.text, GH_HOST), made_from)

\* r == GHRepo::new(owner, name).unwrap()
CallEq(owner, name) ==
    /\ pc = "done"
    /\ ret.tag = "Ok"
    /\ GHRepo_new(owner, name).tag = "Ok"
    /\ Returns("eq", <<>>, owner, name,
               Bool(GHRepo_eq(ret, GHRepo_new(owner, name))), <<ret>>)

\* r.cmp(&GHRepo::new(owner, name).unwrap())
CallCmp(owner, name) ==
    /\ pc = "done"
    /\ ret.tag = "Ok"
    /\ GHRepo_new(owner, name).tag = "Ok"
    /\ Returns("cmp", <<>>, owner, name,
               Ordering(GHRepo_cmp(ret, GHRepo_new(owner, name))), <<ret>>)

\* r == *other for a plain string
CallEqStr(other) ==
    /\ pc = "done"
    /\ ret.tag = "Ok"
    /\ Returns("eq_str", other, <<>>, <<>>, Bool(GHRepo_eq_str(ret, other)), <<ret>>)

\* r.partial_cmp(other) for a plain string
CallCmpStr(other) ==
    /\ pc = "done"
    /\ ret.tag = "Ok"
    /\ Returns("cmp_str", other, <<>>, <<>>,
               Ordering(GHRepo_partial_cmp_str(ret, other)), <<ret>>)

\* Owners and names of the GHRepos compared, and plain strings
CmpOwners == { <<"o">>, <<"a","b">>, <<"b">>, <<"O">>, <<"o","-">>, NONE_WORD }
CmpNames  == { <<"n">>, <<"c">>, <<"n",".","t">>, <<"n">> \o DOT_GIT }
CmpSpecifiers == Cat(Cat(CmpOwners, {SLASH}), CmpNames)
LibUrls ==
    Cat({ HTTPS_SCHEME \o GITHUB_COM \o SLASH,
          HTTPS_SCHEME \o API_DOT \o GITHUB_COM \o REPOS_PATH,
          GIT_AT \o GITHUB_COM \o COLON,
          GIT_SCHEME \o X_IO \o SLASH,
          X_IO \o SLASH },
        { O_N, O_N \o DOT_GIT, <<"a","b","/","c">> })
CmpStrings == CmpSpecifiers \cup LibUrls \cup { <<>>, <<"o">>, O_N \o SLASH, <<"é">> }

\* The constructors, then the methods of the GHRepo they returned
NextLib ==
    \/ \E h \in {<<>>, <<X_IO>>} : SetEnv(h)
    \/ \E o \in CmpOwners, n \in CmpNames : CallNew(o, n)
    \/ \E str \in CmpSpecifiers \cup LibUrls : CallFromStr(str)
    \/ \E str \in LibUrls : CallFromUrl(str)
    \/ \E str \in CmpStrings : CallTryFrom(str)
    \/ \E str \in CmpNames \cup LibUrls, o \in DefaultOwners : CallFromStrWithOwner(str, o)
    \/ \E k \in UrlKinds : CallDerivedUrl(k)
    \/ CallFromStrOfString
    \/ CallSerialize
    \/ CallDeserialize
    \/ \E o \in CmpOwners, n \in CmpNames : CallEq(o, n)
    \/ \E o \in CmpOwners, n \in CmpNames : CallCmp(o, n)
    \/ \E str \in CmpStrings : CallEqStr(str)
    \/ \E str \in CmpStrings : CallCmpStr(str)
    \/ IterStart
    \/ IterHttp
    \/ IterWeb
    \/ IterOwnerName
    \/ IterOwnerNameGit
    \/ IterEnd
    \/ Drop

SpecLib == Init /\ [][NextLib]_vars

-----------------------------------------------------------------------------
(* The methods of a LocalRepo.  A method that runs git waits in             *)
(* Command::output() until the child has exited; what the child does is     *)
(* the environment's choice.                                                *)

ORIGIN == <<"o","r","i","g","i","n">>
UP     == <<"u","p">>
MAIN   == <<"m","a","i","n">>

Remotes  == {ORIGIN, UP}
Branches == {MAIN}

\* Values a git child may write: remote names, URLs of every kind, other text
GitTexts ==
    { <<>>,
      ORIGIN,
      HTTPS_SCHEME \o GITHUB_COM \o <<"/","o","/","n">> \o DOT_GIT,
      GIT_AT \o GITHUB_COM \o <<":","o","/","n">>,
      HTTPS_SCHEME \o X_IO \o <<"/","o","/","n">>,
      HTTPS_SCHEME \o GITHUB_COM \o <<"/","o","/","n">> \o DOT_GIT \o DOT_GIT,
      <<"o","/","n">>,
      <<"/","s","r","v","/","é",".","g","i","t">> }

\* White space a child may write before and after the value
PadsBefore == {<<>>, <<32>>}
PadsAfter  == {<<>>, <<LF>>, <<32, LF>>}

Padded(pre, text, post) == pre \o as_bytes(text) \o post

Utf8Outputs ==
    {Padded(pre, text, post) :
        pre \in PadsBefore, text \in GitTexts, post \in PadsAfter}

\* Outputs that are not UTF-8: a stray byte, a sequence cut short
NonUtf8Outputs == {<<255>>, as_bytes(ORIGIN) \o <<195>>, <<195, LF>>}

FailStatuses == {Exited(1), Exited(2), Exited(128), Signaled}

GitOutcomes ==
    {SpawnFailed}
        \cup {Output(Exited(0), b) : b \in Utf8Outputs \cup NonUtf8Outputs}
        \cup {Output(st, b) : st \in FailStatuses,
                               b \in {<<>>, Padded(<<>>, ORIGIN, <<LF>>),
                                      Padded(<<>>, GIT_AT \o GITHUB_COM
                                                 \o <<":","o","/","n">>, <<LF>>)}}

\* A git child entered in the log: its arguments and, once it has exited or
\* failed to start, its outcome
Child(args) == [args |-> args, out |-> <<>>]

\* The log once the child that is running has the outcome out
git_exits(out) == [git EXCEPT ![Len(git)].out = <<out>>]

\* A method of LocalRepo is called with the argument str and waits for its
\* first git child
CallsGit(o, p, str, args) ==
    /\ pc = "idle"
    /\ pc' = p
    /\ op' = o
    /\ s' = str
    /\ ret' = NoValue
    /\ host_at_call' = GH_HOST
    /\ git' = <<Child(args)>>
    /\ UNCHANGED <<GH_HOST, owner_arg, name_arg, start_patterns, state, data,
                   result, parsed, made_from, pull_tokens>>

\* The method in progress returns r
LocalReturns(r) ==
    /\ pc' = "done"
    /\ ret' = r
    /\ UNCHANGED <<GH_HOST, op, s, owner_arg, name_arg, start_patterns, state,
                   data, result, parsed, host_at_call, made_from, pull_tokens>>

\* LocalRepo::github_remote up to Command::output()
CallGithubRemote(remote) ==
    /\ CallsGit("github_remote", "remote_get_url", remote,
                remote_get_url_args(remote))
    /\ UNCHANGED <<command, stdout, stderr, exit_code>>

\* LocalRepo::branch_upstream up to the first Command::output()
CallBranchUpstream(branch) ==
    /\ CallsGit("branch_upstream", "config_get", branch,
                config_get_args(branch))
    /\ UNCHANGED <<command, stdout, stderr, exit_code>>

\* The ghrepo command ends, run having returned r: the Run arm of
\* Command::run, then main's return or exit
CommandEnds(r) ==
    /\ LocalReturns(r)
    /\ stdout' = run_stdout(r)
    /\ stderr' = run_stderr(r)
    /\ exit_code' = <<run_exit_code(r)>>
    /\ UNCHANGED command

\* github_remote returns g, to its caller or to run
GithubRemoteReturns(g) ==
    IF command = <<>>
    THEN LocalReturns(g) /\ UNCHANGED <<command, stdout, stderr, exit_code>>
    ELSE CommandEnds(run_format(g, command[1].json))

\* `git remote get-url` is over: read and github_remote finish
RemoteGetUrlExits(out) ==
    /\ pc = "remote_get_url"
    /\ git' = git_exits(out)
    /\ GithubRemoteReturns(github_remote_match(git[Len(git)].args[4],
                                               read(out), GH_HOST))

\* branch_upstream's arm `Ok(upstream) => self.github_remote(&upstream)`
\* up to Command::output()
QueriesUpstream(out, upstream) ==
    /\ git' = Append(git_exits(out), Child(remote_get_url_args(upstream)))
    /\ pc' = "remote_get_url"
    /\ UNCHANGED <<GH_HOST, op, s, owner_arg, name_arg, start_patterns, state,
                   data, result, parsed, ret, host_at_call, made_from, pull_tokens>>

\* `git config --get` is over: read finishes and branch_upstream goes on
\* to github_remote or returns
ConfigGetExits(out) ==
    /\ pc = "config_get"
    /\ IF read(out).tag = "Str"
       THEN QueriesUpstream(out, read(out).text)
       ELSE /\ git' = git_exits(out)
            /\ LocalReturns(branch_upstream_match(s, read(out)))
    /\ UNCHANGED <<command, stdout, stderr, exit_code>>

LocalHosts == {<<>>, <<X_IO>>}

NextLocal ==
    \/ \E h \in LocalHosts : SetEnv(h)
    \/ \E r \in Remotes : CallGithubRemote(r)
    \/ \E b \in Branches : CallBranchUpstream(b)
    \/ \E out \in GitOutcomes : RemoteGetUrlExits(out)
    \/ \E out \in GitOutcomes : ConfigGetExits(out)
    \/ Drop

SpecLocal == Init /\ [][NextLocal]_vars

-----------------------------------------------------------------------------
(* The ghrepo command with the arguments of Command::Run                    *)

REPO_DIR == <<"r","e","p","o">>
Dirpaths == {<<>>, <<REPO_DIR>>}

\* The command with no <REPO PATH> when env::current_dir() fails: for_cwd
\* returns CurdirError and no git child is started
CurdirFails(cmd) ==
    /\ pc = "idle"
    /\ cmd.dirpath = <<>>
    /\ op' = "run"
    /\ s' = cmd.remote
    /\ host_at_call' = GH_HOST
    /\ command' = <<cmd>>
    /\ git' = <<>>
    /\ pc' = "done"
    /\ ret' = CurdirError
    /\ stdout' = run_stdout(CurdirError)
    /\ stderr' = run_stderr(CurdirError)
    /\ exit_code' = <<run_exit_code(CurdirError)>>
    /\ UNCHANGED <<GH_HOST, owner_arg, name_arg, start_patterns, state, data,
                   result, parsed, made_from, pull_tokens>>

\* The command up to the Command::output() of github_remote: the LocalRepo
\* is made from <REPO PATH> or from the current directory
CallRun(cmd) ==
    /\ CallsGit("run", "remote_get_url", cmd.remote,
                remote_get_url_args(cmd.remote))
    /\ command' = <<cmd>>
    /\ UNCHANGED <<stdout, stderr, exit_code>>

Commands ==
    [json : BOOLEAN, remote : Remotes, dirpath : Dirpaths]

NextCli ==
    \/ \E h \in LocalHosts : SetEnv(h)
    \/ \E cmd \in Commands : CurdirFails(cmd)
    \/ \E cmd \in Commands : CallRun(cmd)
    \/ \E out \in GitOutcomes : RemoteGetUrlExits(out)
    \/ Drop

SpecCli == Init /\ [][NextCli]_vars

-----------------------------------------------------------------------------
(* The lexers of parser.rs called on their own, as its unit tests do        *)

\* What a lexer returned: None, or Some of the slices
Split(r) == [tag |-> "Split", found |-> r]

CallSplitOwner(str) ==
    /\ pc = "idle"
    /\ Returns("split_owner", str, <<>>, <<>>, Split(split_owner(str)), <<>>)

CallSplitName(str) ==
    /\ pc = "idle"
    /\ Returns("split_name", str, <<>>, <<>>, Split(split_name(str)), <<>>)

CallSplitOwnerName(str) ==
    /\ pc = "idle"
    /\ Returns("split_owner_name", str, <<>>, <<>>,
               Split(split_owner_name(str)), <<>>)

\* Inputs of split_owner_name: an owner, valid or not, with or without the
\* slash, before a candidate name
LexHeads == { <<"o","/">>, <<"o","-","/">>, <<"n","o","n","e","/">>,
              <<"o">>, <<"o","/","/">>, <<"é","/">>, <<"/">> }
LexNameFrags == { <<"n">>, DOT_GIT, <<".","G","i","t">>, <<".">>, <<"/">>,
                  <<"=">> }
LexInputs == Cat(LexHeads, Words(LexNameFrags, MaxNameFrags))

NextLex ==
    \/ \E str \in OwnerWords : CallSplitOwner(str)
    \/ \E str \in NameWords : CallSplitName(str)
    \/ \E str \in LexInputs : CallSplitOwnerName(str)
    \/ Drop

SpecLex == Init /\ [][NextLex]_vars

-----------------------------------------------------------------------------
(* The methods of PullParser called on a parser of their own, as the unit   *)
(* tests of parser.rs do: data is the cursor afterwards                     *)

MaxPullFrags  == 3  \* fragments concatenated into the parser's data
MaxSeqTokens  == 2  \* tokens in a sequence given to consume_seq

A_B   == <<"a","b">>
PullFrags == { A_B, <<"A","B">>, <<"c">>, <<"C">>, <<"é">> }
PullData  == Words(PullFrags, MaxPullFrags)

PullTokens == { Literal(A_B), CaseFold(A_B), Literal(<<"c">>),
                CaseFold(<<"c","é">>), CaseFold(<<"a","b","c">>) }

RECURSIVE TokenSeqs(_)
TokenSeqs(n) ==
    IF n = 0 THEN {<<>>}
    ELSE TokenSeqs(n - 1)
            \cup {Append(q, k) : q \in TokenSeqs(n - 1), k \in PullTokens}

\* PullParser::new(d)
NewPullParser(d) ==
    /\ pc = "idle"
    /\ pc' = "parser"
    /\ op' = "PullParser::new"
    /\ s' = d
    /\ data' = d
    /\ host_at_call' = GH_HOST
    /\ UNCHANGED <<GH_HOST, owner_arg, name_arg, start_patterns, state,
                   result, parsed, ret, made_from>>
    /\ UNCHANGED lvars

\* A method of the new parser returns r, the cursor then being cursor
PullReturns(o, toks, r, cursor) ==
    /\ pc = "parser"
    /\ pc' = "done"
    /\ op' = o
    /\ pull_tokens' = toks
    /\ data' = cursor
    /\ ret' = r
    /\ UNCHANGED <<GH_HOST, s, owner_arg, name_arg, start_patterns, state,
                   result, parsed, host_at_call, made_from, git, command,
                   stdout, stderr, exit_code>>

CallConsume(token) ==
    PullReturns("consume", <<token>>, Bool(consume(data, token).ok),
                consume(data, token).data)

CallConsumeSeq(toks) ==
    PullReturns("consume_seq", toks, Bool(consume_seq(data, toks).ok),
                consume_seq(data, toks).data)

CallMaybeConsume(token) ==
    PullReturns("maybe_consume", <<token>>, NoValue, maybe_consume(data, token))

NextPull ==
    \/ \E d \in PullData : NewPullParser(d)
    \/ \E k \in PullTokens : CallConsume(k)
    \/ \E q \in TokenSeqs(MaxSeqTokens) : CallConsumeSeq(q)
    \/ \E k \in PullTokens : CallMaybeConsume(k)
    \/ Drop

SpecPull == Init /\ [][NextPull]_vars

-----------------------------------------------------------------------------
(* Properties *)

\* An operation that went through parse_github_url has returned
ParseReturned == pc = "done" /\ state # "NotRun"

\* C1: from_url and from_str either succeed or fail with InvalidSpec
\* carrying the whole input; they never return InvalidOwner or InvalidName.
C1_OnlyInvalidSpec ==
    (pc = "done" /\ op \in {"from_url", "from_str"})
        => (ret.tag = "Ok" \/ ret = InvalidSpec(s))

\* C2: parsing any derived URL of a GHRepo built by GHRepo::new with
\* from_str gives back that GHRepo.
C2_RoundTrip ==
    (pc = "done" /\ op = "from_str" /\ made_from # <<>>) => ret = made_from[1]

C2_Witness ==
    /\ pc = "done" /\ op = "from_str" /\ made_from # <<>>
    /\ s = ssh_url(made_from[1])
    /\ GH_HOST = <<X_IO>>
    /\ ret.tag = "Ok"

\* The GHRepo r, with o = r.owner() and n = r.name(), is well formed
WellFormed(r, o, n) ==
    /\ o # <<>>
    /\ n # <<>>
    /\ is_valid_owner(o[1])
    /\ is_valid_name(n[1])
    /\ \A i \in 1..Len(o[1]) : o[1][i] # "/"
    /\ \A i \in 1..Len(n[1]) : n[1][i] # "/"
    /\ r.fullname = o[1] \o SLASH \o n[1]
    /\ {i \in 1..Len(r.fullname) : r.fullname[i] = "/"}
           = {CharIndex(r.fullname, r.slash_pos) + 1}

\* C3: every GHRepo a constructor returns has a valid owner and a valid
\* name, neither with a '/', its full name is owner + "/" + name, and
\* slash_pos is the position of the only '/' (owner() and name() are Some).
C3_RepoInvariant ==
    (pc = "done" /\ ret.tag = "Ok") =>
        WellFormed(ret, GHRepo_owner(ret), GHRepo_name(ret))

C3_Witness ==
    /\ pc = "done" /\ op = "try_from" /\ ret.tag = "Ok"
    /\ GHRepo_owner(ret) = << <<"r","e","p","o","s">> >>
    /\ GHRepo_name(ret) = << <<"n">> >>

\* The position of the first occurrence of `old` in str from position i
\* on, or 0 when there is none
RECURSIVE find_sub(_, _, _)
find_sub(str, old, i) ==
    IF i + Len(old) - 1 > Len(str) THEN 0
    ELSE IF SubSeq(str, i, i + Len(old) - 1) = old THEN i
    ELSE find_sub(str, old, i + 1)

ReplaceAt(str, i, n, new) ==
    IF i = 0 THEN <<>>
    ELSE << SubSeq(str, 1, i - 1) \o new \o SubSeq(str, i + n, Len(str)) >>

\* Replace the first occurrence of `old` in str by `new`: Some(string), or
\* None when `old` does not occur
ReplaceFirst(str, old, new) == ReplaceAt(str, find_sub(str, old, 1), Len(old), new)

SameIfAccepted(u, p) == u # <<>> => p = u

\* C4: whatever GH_HOST is set to, an input that parse_github_url accepts
\* with GH_HOST unset is accepted with the same owner and name.
C4_DefaultHostKept ==
    ParseReturned => SameIfAccepted(parse_github_url(s, <<>>), parsed)

\* u is Some(default-host URL) of which str is the variant for host, and
\* the default-host URL is accepted: then str is accepted with result p
VariantAccepted(str, host, u, p) ==
    (u # <<>> /\ ReplaceFirst(get_from_or_empty(u), GITHUB_COM, host) = <<str>>)
        => SameIfAccepted(parse_github_url(get_from_or_empty(u), <<host>>), p)

\* C5: with an alternate host H configured, the URL obtained from an
\* accepted default-host URL by substituting H for github.com is accepted
\* with the same owner and name.
C5_ParallelVariant ==
    (ParseReturned /\ GH_HOST # <<>> /\ GH_HOST[1] # GITHUB_COM) =>
        VariantAccepted(s, GH_HOST[1], ReplaceFirst(s, GH_HOST[1], GITHUB_COM), parsed)

\* C6: a parse_github_url call during which GH_HOST is changed returns what
\* it would return under the single value GH_HOST had when it was called.
C6_ReadOncePerCall ==
    ParseReturned => parsed = parse_github_url(s, host_at_call)

\* The character classes and reserved forms, spelled out
OwnerCharSet == LowerSet \cup UpperSet \cup DigitSet \cup {"-", "_"}
NameCharSet  == OwnerCharSet \cup {"."}
IsNoneWord(str) ==
    /\ Len(str) = 4
    /\ str[1] \in {"n", "N"} /\ str[2] \in {"o", "O"}
    /\ str[3] \in {"n", "N"} /\ str[4] \in {"e", "E"}
EndsWithDotGit(str) ==
    /\ Len(str) >= 4
    /\ str[Len(str) - 3] = "."
    /\ str[Len(str) - 2] \in {"g", "G"}
    /\ str[Len(str) - 1] \in {"i", "I"}
    /\ str[Len(str)] \in {"t", "T"}
OwnerRule(str) ==
    /\ str # <<>>
    /\ \A i \in 1..Len(str) : str[i] \in OwnerCharSet
    /\ ~IsNoneWord(str)
NameRule(str) ==
    /\ str # <<>>
    /\ \A i \in 1..Len(str) : str[i] \in NameCharSet
    /\ str # <<".">>
    /\ str # <<".", ".">>
    /\ ~EndsWithDotGit(str)

\* C7: is_valid_owner(s) holds exactly when s is non-empty, made of ASCII
\* letters, digits, '-' and '_', and is not "none" ignoring ASCII case.
C7_ValidOwner ==
    (pc = "done" /\ op = "is_valid_owner") => ret = Bool(OwnerRule(s))

C7_Witness ==
    /\ pc = "done" /\ op = "is_valid_owner"
    /\ s = <<"N","o","n","e","-">>
    /\ ret = Bool(TRUE)

\* C8: is_valid_name(s) holds exactly when s is non-empty, made of ASCII
\* letters, digits, '-', '_' and '.', is neither "." nor "..", and does not
\* end with ".git" ignoring ASCII case.
C8_ValidName ==
    (pc = "done" /\ op = "is_valid_name") => ret = Bool(NameRule(s))

C8_Witness ==
    /\ pc = "done" /\ op = "is_valid_name"
    /\ s = <<"r",".","G","I","T">>
    /\ ret = Bool(FALSE)

\* r is the GHRepo with the given owner and name
IsRepoOf(r, owner, name) ==
    /\ r.tag = "Ok"
    /\ GHRepo_owner(r) = <<owner>>
    /\ GHRepo_name(r) = <<name>>

\* C9: GHRepo::new returns InvalidOwner(owner) when the owner is invalid,
\* else InvalidName(name) when the name is invalid, else a GHRepo whose
\* owner() and name() are the arguments.
C9_NewChecksOwnerFirst ==
    (pc = "done" /\ op = "new") =>
        IF ~OwnerRule(owner_arg) THEN ret = InvalidOwner(owner_arg)
        ELSE IF ~NameRule(name_arg) THEN ret = InvalidName(name_arg)
        ELSE IsRepoOf(ret, owner_arg, name_arg)

C9_Witness ==
    /\ pc = "done" /\ op = "new"
    /\ ~OwnerRule(owner_arg) /\ ~NameRule(name_arg)
    /\ ret = InvalidOwner(owner_arg)

\* from_str_with_owner(str, owner) returned r, and from_str(str) gives f
WithOwnerAgrees(str, owner, r, f) ==
    /\ IF NameRule(str)
       THEN IF OwnerRule(owner) THEN IsRepoOf(r, owner, str)
            ELSE r = InvalidOwner(owner)
       ELSE r = f
    /\ f.tag = "Ok" => r = f

\* C10: from_str_with_owner(s, owner) is GHRepo::new(owner, s) when s is a
\* valid name and from_str(s) otherwise, so an s that from_str accepts gives
\* the same GHRepo whatever the default owner.
C10_FromStrWithOwner ==
    (pc = "done" /\ op = "from_str_with_owner") =>
        WithOwnerAgrees(s, owner_arg, ret, from_str(s, host_at_call))

C10_Witness ==
    /\ pc = "done" /\ op = "from_str_with_owner"
    /\ ParseReturned
    /\ owner_arg = NONE_WORD
    /\ ret.tag = "Ok"

\* str is owner "/" name, both valid, the '/' at position i
SpecifierAt(str, i) ==
    /\ str[i] = "/"
    /\ OwnerRule(SubSeq(str, 1, i - 1))
    /\ NameRule(SubSeq(str, i + 1, Len(str)))

\* str is a valid owner, "/" and a valid name
SpecifierRule(str) == \E i \in 1..Len(str) : SpecifierAt(str, i)

\* str is a valid owner, "/", a valid name and non-empty trailing text: a
\* proper prefix of str is owner "/" name and str itself is not
HasTrailingText(str) ==
    /\ \E j \in 1..(Len(str) - 1) : SpecifierRule(SubSeq(str, 1, j))
    /\ ~SpecifierRule(str)

\* str begins, ignoring ASCII case, with the alternate host env and a '/'
StartsWithHost(str, env) ==
    /\ env # <<>>
    /\ Len(str) > Len(env[1])
    /\ eq_ignore_ascii_case(SubSeq(str, 1, Len(env[1]) + 1), env[1] \o SLASH)

\* C11 as stated: from_str of a valid owner, "/", a valid name and non-empty
\* trailing text fails with InvalidSpec, whatever GH_HOST is.
C11_AnyTrailingText ==
    (pc = "done" /\ op = "from_str" /\ HasTrailingText(s))
        => ret = InvalidSpec(s)

\* C11: from_str of a valid owner, "/", a valid name and non-empty trailing
\* text fails with InvalidSpec of the whole input, provided the input does
\* not begin with the alternate host followed by '/'.
C11_WholeString ==
    (/\ pc = "done" /\ op = "from_str"
     /\ HasTrailingText(s)
     /\ ~StartsWithHost(s, host_at_call))
        => ret = InvalidSpec(s)

C11_Witness ==
    /\ pc = "done" /\ op = "from_str" /\ ParseReturned
    /\ s = O_N \o <<"/","m">>
    /\ GH_HOST = <<X_IO>>
    /\ ret = InvalidSpec(s)

\* str is tail behind the head hd written with its case-insensitive parts
\* in mode m: then p is what the all-lower-case spelling gives, if accepted
SameAsLowerCase(str, hd, m, env, p) ==
    starts_with(str, Render(hd.parts, m, "lower")) =>
        SameIfAccepted(
            parse_github_url(Render(hd.parts, "lower", "lower")
                               \o DropLen(str, Len(Render(hd.parts, m, "lower"))), env),
            p)

\* C12: writing the scheme, the www. prefix or the host name of an accepted
\* URL in another ASCII case gives a URL accepted with the same owner and
\* name.
C12_CaseInsensitive ==
    ParseReturned =>
        \A hd \in FormHeads, m \in {"upper", "mixed"} :
            SameAsLowerCase(s, hd, m, host_at_call, parsed)

C12_Witness ==
    /\ ParseReturned
    /\ s = Recase(HTTPS_SCHEME \o WWW_DOT \o GITHUB_COM, "upper") \o SLASH \o O_N
    /\ parsed = << <<O_HOST, <<"n">> >> >>

\* The head hd has a case-sensitive part: /repos/ or git@
HasCsPart(hd) == \E i \in 1..Len(hd.parts) : hd.parts[i].kind = "cs"

\* str has the head hd with /repos/ or git@ written in mode m
UpperLiteralIn(str, hd, m) ==
    /\ hd.form # "none"
    /\ HasCsPart(hd)
    /\ starts_with(str, Render(hd.parts, "lower", m))

\* str is a URL of some form whose ".git" suffix has upper-case letters
UpperGitSuffixIn(str) ==
    \E hd \in FormHeads, m \in {"lower", "upper", "mixed"}, x \in UpperGitTrailers :
        /\ hd.form # "none"
        /\ str = Render(hd.parts, m, "lower") \o O_N \o x

\* C13: parse_github_url rejects every input whose /repos/ literal, git@
\* user name or ".git" suffix is written with upper-case letters.
C13_CaseSensitive ==
    ParseReturned =>
        /\ \A hd \in FormHeads, m \in {"upper", "mixed"} :
               UpperLiteralIn(s, hd, m) => parsed = <<>>
        /\ UpperGitSuffixIn(s) => parsed = <<>>

C13_Witness ==
    /\ ParseReturned
    /\ s = GIT_AT \o GITHUB_COM \o COLON \o O_N \o <<".","G","I","T">>
    /\ parsed = <<>>
    /\ result # <<>>

\* The trailing text a form accepts after owner/name
Tolerated(form) ==
    CASE form = "web" -> {<<>>, DOT_GIT, SLASH, DOT_GIT \o SLASH}
      [] form = "api" -> {<<>>}
      [] form = "git" -> {<<>>, DOT_GIT}
      [] form = "none" -> {}

\* The heads of the default host and of the alternate host env, if any
EnvHeads(env) ==
    HeadsOf(GITHUB_COM) \cup (IF env # <<>> THEN HeadsOf(env[1]) ELSE {})

\* str is the head hd (written in some case), then owner "/" name, then
\* trailing text that hd's form accepts
AcceptedShape(str, hd, owner, name) ==
    \E m \in {"lower", "upper", "mixed"}, x \in Tolerated(hd.form) :
        str = Render(hd.parts, m, "lower") \o owner \o SLASH \o name \o x

UserinfoCharSet ==
    LowerSet \cup UpperSet \cup DigitSet
      \cup {"-", ".", "_", "~", "!", "$", "&", "'", "(", ")", "*", "+", ",",
            ";", "=", "%", ":"}

UserinfoRule(u) == \A i \in 1..Len(u) : u[i] \in UserinfoCharSet

\* The userinfo field u of str = "https://" + u + "@github.com/o/n"
UserinfoOf(str) ==
    SubSeq(str, Len(HTTPS_SCHEME) + 1, Len(str) - Len(AT_GITHUB_O_N))

\* C15: parse_github_url("https://" + u + "@github.com/o/n") returns (o, n)
\* when u, possibly empty, is made of ASCII alphanumerics and
\* -._~!$&'()*+,;=%: only, and None when u has any other character.
C15_UserinfoSet ==
    (ParseReturned /\ s \in UserinfoInputs) =>
        parsed = IF UserinfoRule(UserinfoOf(s))
                 THEN << <<O_HOST, <<"n">> >> >> ELSE <<>>

C15_Witness ==
    /\ ParseReturned
    /\ s = HTTPS_SCHEME \o <<"*","+",",",";","=","%",":">> \o AT_GITHUB_O_N
    /\ parsed = << <<O_HOST, <<"n">> >> >>

\* The head hd has a userinfo field
HasUiPart(hd) == \E i \in 1..Len(hd.parts) : hd.parts[i].kind = "ui"

\* str is the head hd, with a userinfo field, followed by o/n: p is (o, n)
\* for a web URL with a scheme and None for the other shapes
UserinfoOnlyInWeb(str, hd, p) ==
    (HasUiPart(hd) /\ str = Render(hd.parts, "lower", "lower") \o O_N) =>
        p = IF hd.form = "web" THEN << <<O_HOST, <<"n">> >> >> ELSE <<>>

\* C16: userinfo is accepted only after http:// or https:// and only in
\* front of the web host: userinfo@host/o/n without a scheme and
\* scheme://userinfo@api.host/repos/o/n are rejected, scheme://userinfo@host/o/n
\* (with or without www.) gives (o, n).
C16_UserinfoPlace ==
    ParseReturned =>
        \A hd \in EnvHeads(host_at_call) : UserinfoOnlyInWeb(s, hd, parsed)

C16_Witness ==
    /\ ParseReturned
    /\ s = HTTPS_SCHEME \o U_P_AT \o API_DOT \o GITHUB_COM \o REPOS_PATH \o O_N
    /\ parsed = <<>>

\* try_from(str) returned r; v is is_valid_repository(str), f is
\* from_str(str) and u is from_url(str)
TryFromAgrees(str, r, v, f, u) ==
    /\ (r.tag = "Ok") <=> v
    /\ v <=> SpecifierRule(str)
    /\ r.tag = "Ok" => r = f
    /\ u.tag = "Ok" => r.tag # "Ok"
    /\ r.tag # "Ok" => r = InvalidSpec(str)

\* C17: TryFrom<String> accepts exactly the strings for which
\* is_valid_repository holds, with the GHRepo from_str gives; it rejects
\* every string from_url accepts; a failure is InvalidSpec of the input.
C17_TryFromString ==
    (pc = "done" /\ op = "try_from") =>
        TryFromAgrees(s, ret, is_valid_repository(s),
                      from_str(s, host_at_call), from_url(s, host_at_call))

C17_Witness ==
    /\ pc = "done" /\ op = "try_from"
    /\ s = HTTPS_SCHEME \o GITHUB_COM \o SLASH \o O_N
    /\ from_url(s, host_at_call).tag = "Ok"
    /\ ret = InvalidSpec(s)

\* from_str(str) returned r: when str is a valid owner, '/' at i and a valid
\* name, r is what GHRepo::new gives for them, the GHRepo of that owner and
\* name
SameAsNew(str, i, r) ==
    SpecifierAt(str, i) =>
        /\ r = GHRepo_new(SubSeq(str, 1, i - 1), SubSeq(str, i + 1, Len(str)))
        /\ IsRepoOf(r, SubSeq(str, 1, i - 1), SubSeq(str, i + 1, Len(str)))

\* The full name of r put together from owner() and name()
FullNameOf(r) == GHRepo_owner(r)[1] \o SLASH \o GHRepo_name(r)[1]

\* C18: from_str(o + "/" + n) equals GHRepo::new(o, n) for valid o and n;
\* from_str(r.to_string()) gives back r; serialising r emits its full name;
\* deserialising what was serialised gives back r.
C18_CanonicalString ==
    pc = "done" =>
        /\ op = "from_str" => \A i \in 1..Len(s) : SameAsNew(s, i, ret)
        /\ (op = "from_str" /\ made_from # <<>>) =>
               (s = FullNameOf(made_from[1]) /\ ret = made_from[1])
        /\ op = "serialize" => ret = Str(FullNameOf(made_from[1]))
        /\ op = "deserialize" => ret = made_from[1]

C18_Witness ==
    /\ pc = "done" /\ op = "deserialize"
    /\ s = <<"a","b","/","c">>
    /\ GH_HOST = <<X_IO>>
    /\ ret = GHRepo_new(<<"a","b">>, <<"c">>)

\* The byte sequence x is lexicographically less than y: they agree before
\* some position k, where x has ended or has the smaller byte
LexLess(x, y) ==
    \E k \in 1..Len(y) :
        /\ k <= Len(x) + 1
        /\ \A j \in 1..(k - 1) : x[j] = y[j]
        /\ k = Len(x) + 1 \/ x[k] < y[k]

\* The ordering of two strings by their bytes
ByteOrder(a, b) ==
    IF a = b THEN "Equal"
    ELSE IF LexLess(as_bytes(a), as_bytes(b)) THEN "Less" ELSE "Greater"

\* a == b and a.cmp(b) between GHRepos returned r: the answers are those of
\* the full-name strings
AsFullNames(o, a, b, r) ==
    /\ o = "eq"  => r = Bool(as_str(a) = as_str(b))
    /\ o = "cmp" => r = Ordering(ByteOrder(as_str(a), as_str(b)))

\* a compared with the plain string str returned r: the answer is that of
\* the full name and str
AsFullNameAndStr(o, a, str, r) ==
    /\ o = "eq_str"  => r = Bool(as_str(a) = str)
    /\ o = "cmp_str" => r = Ordering(ByteOrder(as_str(a), str))

\* a compared with the plain string str returned r: the answer is that of
\* comparing a with the GHRepo f parsed from str
AsParsed(o, a, f, r) ==
    /\ o = "eq_str"  => r = Bool(GHRepo_eq(a, f))
    /\ o = "cmp_str" => r = Ordering(GHRepo_cmp(a, f))

\* C19 as stated: equality and ordering of GHRepos are those of their full
\* names, and comparing a GHRepo with a plain string gives the answer of
\* comparing it with the GHRepo parsed from that string.
C19_LikeParsedString ==
    pc = "done" =>
        /\ op \in {"eq", "cmp"} =>
               AsFullNames(op, made_from[1], GHRepo_new(owner_arg, name_arg), ret)
        /\ (op \in {"eq_str", "cmp_str"} /\ from_str(s, host_at_call).tag = "Ok") =>
               AsParsed(op, made_from[1], from_str(s, host_at_call), ret)

\* C19: equality and ordering of GHRepos are those of their full names by
\* bytes; comparing a GHRepo with a plain string compares its full name
\* with the string, which is the answer of comparing with the GHRepo parsed
\* from the string when the string is owner "/" name.
C19_FullNameOrder ==
    pc = "done" =>
        /\ op \in {"eq", "cmp"} =>
               AsFullNames(op, made_from[1], GHRepo_new(owner_arg, name_arg), ret)
        /\ op \in {"eq_str", "cmp_str"} =>
               AsFullNameAndStr(op, made_from[1], s, ret)
        /\ (op \in {"eq_str", "cmp_str"} /\ SpecifierRule(s)) =>
               AsParsed(op, made_from[1], from_str(s, host_at_call), ret)

C19_Witness ==
    /\ pc = "done" /\ op = "cmp"
    /\ as_str(made_from[1]) = <<"a","b","/","c">>
    /\ owner_arg = <<"b">> /\ name_arg = <<"c">>
    /\ ret = Ordering("Less")

\* The URL templates, spelled out: the text before and after the full name
UrlPrefix(kind) ==
    CASE kind = "api"   -> <<"h","t","t","p","s",":","/","/","a","p","i",".","g","i","t","h","u","b",".","c","o","m","/","r","e","p","o","s","/">>
      [] kind = "clone" -> <<"h","t","t","p","s",":","/","/","g","i","t","h","u","b",".","c","o","m","/">>
      [] kind = "git"   -> <<"g","i","t",":","/","/","g","i","t","h","u","b",".","c","o","m","/">>
      [] kind = "html"  -> <<"h","t","t","p","s",":","/","/","g","i","t","h","u","b",".","c","o","m","/">>
      [] kind = "ssh"   -> <<"g","i","t","@","g","i","t","h","u","b",".","c","o","m",":">>

UrlSuffix(kind) == IF kind \in {"clone", "git", "ssh"} THEN <<".","g","i","t">> ELSE <<>>

\* C20: each derived URL of a GHRepo is its template with the full name
\* owner "/" name filled in, always on github.com, whichever constructor
\* returned the GHRepo and whatever GH_HOST is.
C20_DerivedUrls ==
    (pc = "done" /\ op \in UrlKinds) =>
        ret = Str(UrlPrefix(op) \o FullNameOf(made_from[1]) \o UrlSuffix(op))

C20_Witness ==
    /\ pc = "done" /\ op = "clone"
    /\ GH_HOST = <<X_IO>>
    /\ ret = Str(<<"h","t","t","p","s",":","/","/","g","i","t","h","u","b",".","c","o","m","/","a","b","/","c",".","g","i","t">>)

-----------------------------------------------------------------------------
\* What github_remote(remote) is to return for the outcome o of
\* `git remote get-url`, GH_HOST being env
Classified(remote, o, env, r) ==
    IF ~o.spawned THEN r = CouldNotExecute
    ELSE IF o.status = Exited(0)
    THEN /\ o.stdout \in NonUtf8Outputs => r = InvalidUtf8
         /\ \A pre \in PadsBefore, text \in GitTexts, post \in PadsAfter :
                o.stdout = Padded(pre, text, post) =>
                    IF from_url(text, env).tag = "Ok"
                    THEN r = from_url(text, env)
                    ELSE r = InvalidRemoteURL(from_url(text, env))
    ELSE IF o.status = Exited(2) THEN r = NoSuchRemote(remote)
    ELSE r = CommandFailed(o.status)

\* C21: github_remote(remote) classifies every outcome of `git remote
\* get-url`: exit 0 with UTF-8 output gives from_url of the output without
\* the white space around it, a parse failure wrapped as InvalidRemoteURL;
\* exit code 2 gives NoSuchRemote(remote); any other unsuccessful exit gives
\* CommandFailed(status); a child that could not be spawned gives
\* CouldNotExecute; exit 0 with output that is not UTF-8 gives InvalidUtf8.
\* A GHRepo is returned only after exit 0.
C21_GithubRemote ==
    (pc = "done" /\ op = "github_remote") =>
        /\ Len(git) = 1
        /\ git[1].args = <<"remote", "get-url", "--", s>>
        /\ Classified(s, git[1].out[1], host_at_call, ret)
        /\ ret.tag = "Ok" =>
               git[1].out[1].spawned /\ git[1].out[1].status = Exited(0)

\* github_remote returned a GHRepo from an output with white space on both
\* sides of the URL
C21_Witness ==
    /\ pc = "done"
    /\ op = "github_remote"
    /\ ret.tag = "Ok"
    /\ git[1].out[1].stdout =
           Padded(<<32>>, GIT_AT \o GITHUB_COM \o <<":","o","/","n">>, <<32, LF>>)

-----------------------------------------------------------------------------
\* The outcome o of `git config --get` is a successful lookup of the value
\* text: exit 0 and text, with white space around it, as output
LookedUp(o, text) ==
    /\ o.spawned
    /\ o.status = Exited(0)
    /\ \E pre \in PadsBefore, post \in PadsAfter :
           o.stdout = Padded(pre, text, post)

\* What branch_upstream(branch) is to return when the lookup had the
\* outcome o and was not successful
LookupFailed(branch, o, r) ==
    IF ~o.spawned THEN r = CouldNotExecute
    ELSE IF o.status = Exited(0) THEN o.stdout \in NonUtf8Outputs /\ r = InvalidUtf8
    ELSE IF o.status = Exited(1) THEN r = NoUpstream(branch)
    ELSE r = CommandFailed(o.status)

\* C22: branch_upstream(branch) first runs `git config --get --
\* branch.<branch>.remote`; `git remote get-url` is run only after that
\* lookup succeeded, and then for the value looked up.  Exit code 1 from the
\* lookup gives NoUpstream(branch) and every other lookup failure is
\* returned as read made it, in both cases with no second git child; after
\* a successful lookup the result is that of github_remote(upstream).
C22_BranchUpstream ==
    (op = "branch_upstream") =>
        /\ Len(git) \in {1, 2}
        /\ git[1].args =
               <<"config", "--get", "--", BRANCH_DOT \o s \o DOT_REMOTE>>
        /\ Len(git) = 2 =>
               /\ git[1].out # <<>>
               /\ \E text \in GitTexts :
                      /\ LookedUp(git[1].out[1], text)
                      /\ git[2].args = <<"remote", "get-url", "--", text>>
                      /\ pc = "done" =>
                             Classified(text, git[2].out[1], host_at_call, ret)
        /\ (pc = "done" /\ Len(git) = 1) =>
               LookupFailed(s, git[1].out[1], ret)

\* branch_upstream returned the NoSuchRemote of the remote query it made
\* after a successful lookup
C22_Witness ==
    /\ pc = "done"
    /\ op = "branch_upstream"
    /\ Len(git) = 2
    /\ LookedUp(git[1].out[1], ORIGIN)
    /\ ret = NoSuchRemote(ORIGIN)

-----------------------------------------------------------------------------
\* What the command prints for the repository o/n with --json
JSON_O_N ==
    <<"{","\n"," "," "," "," ","\"","o","w","n","e","r","\"",":"," ",
      "\"","o","\"",",","\n"," "," "," "," ","\"","n","a","m","e","\"",
      ":"," ","\"","n","\"",",","\n"," "," "," "," ","\"","f","u","l",
      "l","n","a","m","e","\"",":"," ","\"","o","/","n","\"",",","\n",
      " "," "," "," ","\"","a","p","i","_","u","r","l","\"",":"," ",
      "\"","h","t","t","p","s",":","/","/","a","p","i",".","g","i","t",
      "h","u","b",".","c","o","m","/","r","e","p","o","s","/","o","/",
      "n","\"",",","\n"," "," "," "," ","\"","c","l","o","n","e","_",
      "u","r","l","\"",":"," ","\"","h","t","t","p","s",":","/","/","g",
      "i","t","h","u","b",".","c","o","m","/","o","/","n",".","g","i",
      "t","\"",",","\n"," "," "," "," ","\"","g","i","t","_","u","r",
      "l","\"",":"," ","\"","g","i","t",":","/","/","g","i","t","h","u",
      "b",".","c","o","m","/","o","/","n",".","g","i","t","\"",",","\n",
      " "," "," "," ","\"","h","t","m","l","_","u","r","l","\"",":"," ",
      "\"","h","t","t","p","s",":","/","/","g","i","t","h","u","b",".",
      "c","o","m","/","o","/","n","\"",",","\n"," "," "," "," ","\"",
      "s","s","h","_","u","r","l","\"",":"," ","\"","g","i","t","@","g",
      "i","t","h","u","b",".","c","o","m",":","o","/","n",".","g","i",
      "t","\"","\n","}","\n">>

\* The git child wrote a URL of the repository o/n and exited with code 0
GaveUrlOfON(o, env) ==
    /\ o.spawned
    /\ o.status = Exited(0)
    /\ \E pre \in PadsBefore, text \in GitTexts, post \in PadsAfter :
           /\ o.stdout = Padded(pre, text, post)
           /\ from_url(text, env) = Ok(<<"o","/","n">>, 1)

\* The command ended in success: the result and a line feed on standard
\* output, nothing on standard error, exit code 0
EndedInSuccess ==
    /\ GaveUrlOfON(git[1].out[1], host_at_call)
    /\ stdout = (IF command[1].json THEN JSON_O_N ELSE <<"o","/","n","\n">>)
    /\ stderr = <<>>
    /\ exit_code = <<0>>

\* The command ended with the error e of run: what it wrote and its exit code
EndedInError(e) ==
    /\ stdout = <<>>
    /\ IF e.tag = "CommandFailed"
       THEN /\ stderr = <<>>
            /\ exit_code = (IF e.status.code = <<>> THEN <<1>> ELSE e.status.code)
       ELSE IF e.tag = "NoSuchRemote"
       THEN stderr = <<>> /\ exit_code = <<2>>
       ELSE /\ stderr = <<"g","h","r","e","p","o",":"," ">> \o display_error(e)
                         \o <<"\n">>
            /\ exit_code = <<1>>

\* C23: the command prints the result to standard output and exits with
\* code 0 on success; on CommandFailed it writes nothing and exits with
\* git's exit code, or 1 when git has none; on NoSuchRemote it writes
\* nothing and exits with code 2; on every other error of run it writes
\* "ghrepo: ", the error and a line feed to standard error and exits with
\* code 1.  Nothing is written to standard output on a failure.
C23_ExitStatus ==
    (pc = "done" /\ op = "run") =>
        /\ command # <<>>
        /\ IF ret.tag = "Str" THEN EndedInSuccess ELSE EndedInError(ret)
        /\ ret.tag # "Str" =>
               IF git = <<>> THEN ret = CurdirError /\ command[1].dirpath = <<>>
               ELSE /\ Classified(command[1].remote, git[1].out[1],
                                  host_at_call, ret)
                    /\ ~GaveUrlOfON(git[1].out[1], host_at_call)

\* git exited with code 128 and so did the command, having written nothing
C23_Witness ==
    /\ pc = "done"
    /\ op = "run"
    /\ ret = CommandFailed(Exited(128))
    /\ exit_code = <<128>>
    /\ stdout = <<>>
    /\ stderr = <<>>

-----------------------------------------------------------------------------
\* A lexer has returned Some
LexerFound(o) == pc = "done" /\ op = o /\ ret.found # <<>>

\* C24: the slices the lexers return are validated: an owner and a name
\* returned by split_owner_name satisfy is_valid_owner and is_valid_name,
\* and a name returned by split_name satisfies is_valid_name.
C24_ValidatedSlices ==
    /\ LexerFound("split_owner_name") =>
           is_valid_owner(ret.found[1][1]) /\ is_valid_name(ret.found[1][2])
    /\ LexerFound("split_name") => is_valid_name(ret.found[1][1])

-----------------------------------------------------------------------------
\* The length of the maximal run of name characters at the start of str
NameRunLen(str) ==
    CHOOSE k \in 0..Len(str) :
        /\ \A i \in 1..k : str[i] \in NameCharSet
        /\ k = Len(str) \/ str[k + 1] \notin NameCharSet

\* What split_name(str) is to return when the run is the first k characters
ShortenedToken(str, k, r) ==
    IF EndsWithDotGit(SubSeq(str, 1, k))
    THEN IF SubSeq(str, 1, k - 4) \in {<<>>, <<".">>, <<".", ".">>}
         THEN r = <<>>
         ELSE r = << <<SubSeq(str, 1, k - 4), SubSeq(str, k - 3, Len(str))>> >>
    ELSE IF SubSeq(str, 1, k) \in {<<>>, <<".">>, <<".", ".">>}
         THEN r = <<>>
         ELSE r = << <<SubSeq(str, 1, k), SubSeq(str, k + 1, Len(str))>> >>

\* C25: when the maximal run of name characters at the start of s ends,
\* ignoring ASCII case, with ".git", split_name returns the run without its
\* last 4 characters as the token and the rest of s, which begins with those
\* 4 characters as they were written, as the remainder; there is no match
\* when the shortened token is empty, "." or "..".  A run that does not end
\* with ".git" is returned whole, a ".git" inside it included.
C25_Shortening ==
    (pc = "done" /\ op = "split_name") =>
        ShortenedToken(s, NameRunLen(s), ret.found)

\* split_name shortened "r.GIT" to "r" and left ".GIT"
C25_Witness ==
    /\ pc = "done"
    /\ op = "split_name"
    /\ s = <<"r", ".", "G", "I", "T">>
    /\ ret.found = << << <<"r">>, <<".", "G", "I", "T">> >> >>

-----------------------------------------------------------------------------
\* str is empty or begins with a character outside the class
StopsRun(str, class) == str = <<>> \/ str[1] \notin class

\* C26: a token returned by split_owner or split_name, followed by the
\* remainder returned with it, is the input.  The remainder of split_owner
\* is empty or begins with a character outside the owner class; that of
\* split_name is empty, begins with a character outside the name class, or
\* is the removed ".git" (in any case) followed by such a remainder.  When
\* split_owner_name returns (o, n, rest) the input is o, one "/", n and
\* rest, and n does not begin with "/".
C26_Partition ==
    /\ LexerFound("split_owner") =>
           /\ ret.found[1][1] \o ret.found[1][2] = s
           /\ \A i \in 1..Len(ret.found[1][1]) :
                  ret.found[1][1][i] \in OwnerCharSet
           /\ StopsRun(ret.found[1][2], OwnerCharSet)
    /\ LexerFound("split_name") =>
           /\ ret.found[1][1] \o ret.found[1][2] = s
           /\ \A i \in 1..Len(ret.found[1][1]) :
                  ret.found[1][1][i] \in NameCharSet
           /\ \/ StopsRun(ret.found[1][2], NameCharSet)
              \/ /\ Len(ret.found[1][2]) >= 4
                 /\ EndsWithDotGit(SubSeq(ret.found[1][2], 1, 4))
                 /\ StopsRun(DropLen(ret.found[1][2], 4), NameCharSet)
    /\ LexerFound("split_owner_name") =>
           /\ ret.found[1][1] \o <<"/">> \o ret.found[1][2] \o ret.found[1][3] = s
           /\ ret.found[1][2] # <<>>
           /\ ret.found[1][2][1] # "/"

\* split_name returned "r" and the remainder ".git/": the removed suffix,
\* then a character outside the name class
C26_Witness ==
    /\ pc = "done"
    /\ op = "split_name"
    /\ ret.found = << << <<"r">>, <<".", "g", "i", "t", "/">> >> >>

-----------------------------------------------------------------------------
\* text is what the token matches: the token's text, for a CaseFold token
\* in any ASCII case
MatchesToken(text, token) ==
    IF token.kind = "Literal" THEN text = token.text
    ELSE eq_ignore_ascii_case(text, token.text)

\* text is made of what the tokens match, one after the other
RECURSIVE MatchesTokens(_, _)
MatchesTokens(text, toks) ==
    IF toks = <<>> THEN text = <<>>
    ELSE /\ Len(text) >= Len(Head(toks).text)
         /\ MatchesToken(SubSeq(text, 1, Len(Head(toks).text)), Head(toks))
         /\ MatchesTokens(DropLen(text, Len(Head(toks).text)), Tail(toks))

\* The cursor went from before to after over exactly what the tokens match
AdvancedBy(before, after, toks) ==
    /\ Len(after) <= Len(before)
    /\ before = SubSeq(before, 1, Len(before) - Len(after)) \o after
    /\ MatchesTokens(SubSeq(before, 1, Len(before) - Len(after)), toks)

\* C27: a consume that fails leaves the cursor where it was, and so does a
\* consume_seq that fails, also when the first tokens of the sequence had
\* matched; a consume or consume_seq that succeeds moves the cursor over
\* what its tokens match and nothing more.  maybe_consume leaves the cursor
\* or moves it over what its token matches.
C27_NoPartialConsumption ==
    /\ (pc = "done" /\ op \in {"consume", "consume_seq"}) =>
           IF ret.value THEN AdvancedBy(s, data, pull_tokens) ELSE data = s
    /\ (pc = "done" /\ op = "maybe_consume") =>
           data = s \/ AdvancedBy(s, data, pull_tokens)

\* consume_seq failed at its second token after the first had matched, and
\* the cursor is back at the start
C27_Witness ==
    /\ pc = "done"
    /\ op = "consume_seq"
    /\ ret = Bool(FALSE)
    /\ Len(pull_tokens) = 2
    /\ consume(s, pull_tokens[1]).ok
    /\ s # <<>>
    /\ data = s

-----------------------------------------------------------------------------
\* The states in an order that every move of the loop follows
StateRank(st) ==
    CASE st = "Start"        -> 0
      [] st = "Http"         -> 1
      [] st = "Web"          -> 2
      [] st = "OwnerName"    -> 2
      [] st = "OwnerNameGit" -> 2
      [] st = "End"          -> 3

\* str begins, in any ASCII case, with text
BeginsWithFolded(str, text) ==
    /\ Len(str) >= Len(text)
    /\ \A i \in 1..Len(text) :
           to_ascii_lowercase(str[i]) = to_ascii_lowercase(text[i])

\* The cursor d, after an optional "www.", begins with "github.com/" or
\* with the alternate host and "/"
WebHostMatches(d, env) ==
    \E w \in {<<>>, WWW_DOT}, h \in {<<GITHUB_COM>>, env} \ {<<>>} :
        BeginsWithFolded(d, w \o h[1] \o SLASH)

\* The loop goes on in one of the states targets
GoesOn(targets) ==
    /\ pc' = "parsing"
    /\ state' \in targets
    /\ StateRank(state') > StateRank(state)

\* parse_github_url returns None
ReturnsNone == pc' = "done" /\ parsed' = <<>>

\* The moves an iteration of the loop may make from the current state
Edge ==
    CASE state = "Start" -> GoesOn({"Http", "Web", "OwnerName", "OwnerNameGit"})
      [] state = "Http" -> GoesOn({"OwnerName", "Web"})
      [] state \in {"OwnerName", "OwnerNameGit"} -> GoesOn({"End"}) \/ ReturnsNone
      [] state = "Web" ->
            /\ pc' = "done"
            /\ ~WebHostMatches(data, GH_HOST) => parsed' = <<>>
      [] state = "End" -> pc' = "done"

\* C28: the state graph of the URL recogniser has no cycle: Start moves to
\* Http, Web, OwnerName or OwnerNameGit; Http to OwnerName or Web;
\* OwnerName and OwnerNameGit to End, or the parse fails; Web and End
\* return.  Every iteration of the loop returns or moves to a state of
\* higher rank, so no state is entered twice and the loop ends after at
\* most four iterations; in Web a cursor that begins with no configured
\* host ends the parse with no match.
C28_StateGraph == [][pc = "parsing" => Edge]_vars

\* The parse went through Http to Web and ended there with no match, the
\* cursor beginning with no configured host
C28_Witness ==
    /\ pc = "done"
    /\ state = "Web"
    /\ parsed = <<>>
    /\ BeginsWithFolded(s, HTTPS_SCHEME)
    /\ ~WebHostMatches(data, GH_HOST)
    /\ data # <<>>

\* What may follow the name in an accepted URL
AcceptedTrailers == { <<>>, DOT_GIT, SLASH, DOT_GIT \o SLASH }

ends_with(str, p) ==
    Len(p) <= Len(str) /\ SubSeq(str, Len(str) - Len(p) + 1, Len(str)) = p

\* parse_github_url has returned a match
ReturnedMatch == pc = "done" /\ state # "NotRun" /\ parsed # <<>>

\* C29: parse_github_url returns a match only when the cursor has consumed
\* the entire input, and the input then ends with the returned owner, a "/",
\* the returned name and at most ".git" and "/" after it: owner and name are
\* adjacent slices of the input.
C29_WholeInput ==
    ReturnedMatch =>
        /\ data = <<>>
        /\ \E tr \in AcceptedTrailers :
               ends_with(s, parsed[1][1] \o SLASH \o parsed[1][2] \o tr)

\* A web URL with ".git/" after the name is accepted: the cursor is at the
\* end and the name is the slice before ".git/".
C29_Witness ==
    /\ ReturnedMatch
    /\ state = "Web"
    /\ data = <<>>
    /\ ends_with(s, parsed[1][1] \o SLASH \o parsed[1][2] \o DOT_GIT \o SLASH)
    /\ Len(s) > Len(parsed[1][1]) + Len(parsed[1][2]) + 6

\* The default patterns that match at the start of str
MatchingPatterns(str) ==
    { i \in 1..Len(DefaultPatterns) : consume_seq(str, DefaultPatterns[i].tokens).ok }

\* The default patterns in another order: the k first moved to the end
Rotated(k) ==
    SubSeq(DefaultPatterns, k + 1, Len(DefaultPatterns)) \o SubSeq(DefaultPatterns, 1, k)

\* The state State::Start chooses when the patterns are tried in order pats
ChosenState(str, pats) == find_map(str, pats).state

StartsWithDefaults == pc = "parsing" /\ state = "Start" /\ start_patterns = DefaultPatterns

\* C30: the default Start patterns are mutually exclusive: no input matches
\* two of them, so with no alternate host the state chosen at Start is the
\* one chosen under every other order of the patterns (each rotation puts
\* every pair of patterns in both orders).
C30_MutuallyExclusive ==
    [][StartsWithDefaults =>
          /\ Cardinality(MatchingPatterns(data)) <= 1
          /\ \A k \in 0..Len(DefaultPatterns) :
                 state' = ChosenState(data, Rotated(k))]_vars

\* Start has chosen OwnerNameGit for an input that only the last default
\* pattern, ssh://git@github.com/, matches.
C30_Witness ==
    /\ pc = "parsing"
    /\ state = "OwnerNameGit"
    /\ start_patterns = DefaultPatterns
    /\ MatchingPatterns(s) = {Len(DefaultPatterns)}
    /\ data # s

====
